---- MODULE Spec2Model ----
(***************************************************************************)
(* Serial transport (src/sensor_comm.py) and register-command engine       *)
(* (src/sensor_config.py) of the vibration sensor auto-start tool.         *)
(*                                                                         *)
(* Time is counted in ticks of 0.05 s, the greatest common unit of every   *)
(* delay and bound in the source.  A command is the Python list            *)
(* [length, byte1, byte2, 0x0D]: element 1 is the expected response        *)
(* length, the rest is the payload written to the stream.                  *)
(*                                                                         *)
(* The sensor is the environment: it answers a read frame (address byte    *)
(* below 0x80) with the four bytes [address, MSB, LSB, 0x0D] and keeps its *)
(* status bits set until a time it picks when the command is written.      *)
(***************************************************************************)
EXTENDS Integers, Sequences, FiniteSets, TLC

VARIABLES
    connection,   \* SensorCommunication.connection: "None" or "Open"
    trace,        \* one entry per payload written to the stream, in order
    rx,           \* bytes delivered by the sensor and not yet read
    rxfrom,       \* for each byte of rx, the frame it was sent in reply to
    now,          \* time.time(), in ticks
    sensor,       \* the sensor's window and busy timers
    faults,       \* transport faults injected so far
    stack,        \* the engine's call stack, innermost frame last
    ret,          \* value returned by the call that completed last
    hist,         \* per function: its last return value and loop start
    call,         \* the transport call made last (SpecComm)
    retval        \* the word or identity record returned by the last call

vars ==
    <<connection, trace, rx, rxfrom, now, sensor, faults, stack, ret, hist, call, retval>>

----------------------------------------------------------------------------
(* Bounds of the model *)

\* a transport fault (write error, silent or late reply) is injected at most
\* MaxFaults times in a run ...
MaxFaults == 2
\* ... and only while fewer than MaxFaultPos frames have been written
MaxFaultPos == 7
\* the short one of the durations the sensor may stay busy, in ticks
BusyShort == 3

----------------------------------------------------------------------------
(* Program constants, in ticks of 0.05 s *)

\* FLASH_BACKUP_TIMEOUT = 5.0 and BACKUP_POLL_INTERVAL = 0.1
FLASH_BACKUP_TIMEOUT == 100
BACKUP_POLL_INTERVAL == 2
\* DEFAULT_TIMEOUT = 3.0, the timeout of one stream read
DEFAULT_TIMEOUT == 60
DEFAULT_READ_CHUNK_SIZE == 4096
\* time.sleep(0.05) between two polls of _wait_until_ready
READY_POLL_SLEEP == 1
\* time.sleep(0.1) after reset_sensor()
RESET_SETTLE == 2
\* time.sleep(0.05) after the mode-exit write
MODE_EXIT_DELAY == 1
\* time.sleep(0.8) at the end of full_reset
STABILIZE_DELAY == 16
\* _wait_until_ready(timeout=2.0) in flash_test, (timeout=7.0) in software_reset
FLASH_TEST_READY_TIMEOUT == 40
SW_RESET_READY_TIMEOUT == 140
\* 0x0D, the byte that ends every frame
CR == 13

\* a duration longer than every bound of the program
Never == 10 * SW_RESET_READY_TIMEOUT

BusyTimes == {0, BusyShort, Never}

----------------------------------------------------------------------------
(* Bytes and words *)

Min(a, b) == IF a < b THEN a ELSE b

RECURSIVE Pow2(_)
Pow2(k) == IF k = 0 THEN 1 ELSE 2 * Pow2(k - 1)

\* (v & (1 << k)) != 0
BitSet(v, k) == (v \div Pow2(k)) % 2 = 1

\* (msb << 8) | lsb for two bytes
Word(msb, lsb) == msb * 256 + lsb

\* result[-k] of a Python list
FromEnd(s, k) == s[Len(s) - k + 1]

Take(s, n) == SubSeq(s, 1, Min(n, Len(s)))
Drop(s, n) == SubSeq(s, Min(n, Len(s)) + 1, Len(s))

----------------------------------------------------------------------------
(* Command literals of the engine *)

\* mutant: the window asked for is ignored and window 0 selected
SelectWindowZero(w) == <<0, 254, 0, CR>>
SelectWindow(w) == <<0, 254, w, CR>>
WriteReg(addr, value) == <<0, addr, value, CR>>
\* mutant: a register read expects the two data bytes only
ReadRegTwoBytes(addr) == <<2, addr, 0, CR>>
ReadReg(addr) == <<4, addr, 0, CR>>
ResetSpell == <<0, 255, 255, CR>>

\* command[1:], the bytes send_command writes
Payload(cmd) == Tail(cmd)

----------------------------------------------------------------------------
(* The sensor (environment) *)

\* values the sensor may report for MODE_CTRL and DIAG_STAT1, and the ways a
\* reply may reach the host
ModeVals == {0, 4, 1024}
DiagVals == {0, 1, 4, 256}
Deliveries == {"ok", "silent", "late", "partial", "slow"}

\* the registers of the product id and of the serial number (window 1)
PROD_ID_REGISTERS == <<106, 108, 110, 112>>
SERIAL_REGISTERS == <<116, 118, 120, 122>>
IdentityRegisters == PROD_ID_REGISTERS \o SERIAL_REGISTERS

\* the word holding the character lo in its low byte and hi in its high byte
Chars(lo, hi) == hi * 256 + lo

\* the identities a sensor may hold: "A342VD10" / "12345678"; one with null
\* bytes and white space around and inside the text; an empty one
Identities ==
    << [product |-> <<Chars(65, 51), Chars(52, 50), Chars(86, 68), Chars(49, 48)>>,
        serial |-> <<Chars(49, 50), Chars(51, 52), Chars(53, 54), Chars(55, 56)>>],
       [product |-> <<Chars(32, 77), Chars(0, 65), Chars(32, 0), Chars(66, 9)>>,
        serial |-> <<Chars(0, 0), Chars(10, 57), Chars(0, 32), Chars(56, 0)>>],
       [product |-> <<0, 0, 0, 0>>, serial |-> <<Chars(32, 32), 0, 0, 0>>] >>

SensorInit ==
    [window |-> 0, backupUntil |-> 0, testUntil |-> 0, readyAt |-> 0, id |-> 1]

\* the sensor's reaction to a frame: a window select, or the start of a flash
\* backup (0x8A <- 0x08), flash test (0x83 <- 0x08) or reboot (0x8A <- 0x80),
\* which keep their status bits set for d1 (d2: not ready) ticks
SensorOnFrame(s, payload, t, d1, d2) ==
    IF Len(payload) # 3 THEN s
    ELSE IF payload[1] = 254 THEN [s EXCEPT !.window = payload[2]]
    ELSE IF s.window = 1 /\ payload[1] = 138 /\ payload[2] = 8
        THEN [s EXCEPT !.backupUntil = t + d1]
    ELSE IF s.window = 1 /\ payload[1] = 138 /\ payload[2] = 128
        THEN [s EXCEPT !.readyAt = t + d1]
    ELSE IF s.window = 1 /\ payload[1] = 131 /\ payload[2] = 8
        THEN [s EXCEPT !.testUntil = t + d1, !.readyAt = t + d2]
    ELSE s

\* the words the sensor may hold in the register a read frame addresses
RegisterValues(s, addr, t) ==
    IF s.window = 1 /\ addr = 10
        THEN {(IF t < s.backupUntil THEN 8 ELSE 0) + (IF t < s.readyAt THEN 1024 ELSE 0)}
    ELSE IF s.window = 1 /\ addr = 2
        THEN {IF t < s.testUntil THEN 1024 ELSE 0}
    ELSE IF s.window = 0 /\ addr = 2 THEN ModeVals
    ELSE IF s.window = 0 /\ addr = 4 THEN DiagVals
    ELSE IF s.window = 1 /\ \E k \in 1..8 : IdentityRegisters[k] = addr
        THEN {(Identities[s.id].product \o Identities[s.id].serial)[k] :
                k \in {j \in 1..8 : IdentityRegisters[j] = addr}}
    ELSE {0}

\* the reply to a frame: four bytes for a read frame, nothing for a write
SensorReply(payload, word) ==
    IF Len(payload) = 3 /\ payload[1] < 128
        THEN <<payload[1], word \div 256, word % 256, CR>>
        ELSE <<>>

RECURSIVE Flatten(_)
Flatten(ss) == IF ss = <<>> THEN <<>> ELSE Head(ss) \o Flatten(Tail(ss))

\* the batches in which a reply reaches the host: at once; never; after the
\* read has timed out; half of it and the rest after the timeout; half of it
\* and the rest during the next stream read
Arrivals(reply, deliver) ==
    IF reply = <<>> THEN <<>>
    ELSE IF deliver = "ok" THEN <<reply>>
    ELSE IF deliver = "late" THEN <<<<>>, reply>>
    ELSE IF deliver = "partial" THEN <<Take(reply, 2), <<>>, Drop(reply, 2)>>
    ELSE IF deliver = "slow" THEN <<Take(reply, 2), Drop(reply, 2)>>
    ELSE <<>>

\* whether a transport fault may be injected now: the budget of faults is
\* not used up, and the frame is among the first MaxFaultPos of the run, or
\* belongs to the reading of the identity, which has no polling loop, or to
\* the start write of flash_test, whose failure full_reset tolerates
MayFault(io) ==
    /\ io.faults < MaxFaults
    /\ \/ Len(io.trace) < MaxFaultPos
       \/ io.by \in {"read_word", "detect_identity"}
       \/ io.by = "flash_test" /\ stack[Len(stack)].pc = "start"

\* what the sensor decides when a frame is written: how long the operation it
\* starts keeps it busy, and the batches in which the reply arrives
SensorChoices(io, cmd) ==
    LET p == Payload(cmd)
        starts == Len(p) = 3 /\ io.sensor.window = 1
                  /\ ((p[1] = 138 /\ p[2] \in {8, 128}) \/ (p[1] = 131 /\ p[2] = 8))
        test == starts /\ p[1] = 131
        reads == Len(p) = 3 /\ p[1] < 128
        mayFault == MayFault(io)
    IN  {[d1 |-> d1, d2 |-> d2, fault |-> IF dl = "ok" THEN 0 ELSE 1,
          batches |-> Arrivals(SensorReply(p, w), dl)] :
            d1 \in (IF starts THEN BusyTimes ELSE {0}),
            d2 \in (IF test THEN BusyTimes ELSE {0}),
            w \in (IF reads THEN RegisterValues(io.sensor, p[1], io.now) ELSE {0}),
            dl \in (IF reads /\ mayFault THEN Deliveries ELSE {"ok"})}

----------------------------------------------------------------------------
(* A bare byte stream (environment of the transport taken alone): the device *)
(* sends the bytes 1, 2, 3, ... and they arrive in batches of any sizes.     *)

\* the longest response a command of the transport's own runs asks for
CommRespLen == 2
\* the stream reads during which bytes still arrive
MaxChunks == 2
\* the commands sent and reads made in a run of the transport alone
MaxCommFrames == 2

RECURSIVE Sum(_)
Sum(sizes) == IF sizes = <<>> THEN 0 ELSE Head(sizes) + Sum(Tail(sizes))

\* the bytes from + 1 .. from + n
Bytes(from, n) == [i \in 1..n |-> from + i]

RECURSIVE Batches(_, _)
Batches(sizes, from) ==
    IF sizes = <<>> THEN <<>>
    ELSE <<Bytes(from, Head(sizes))>> \o Batches(Tail(sizes), from + Head(sizes))

\* every way at most n further bytes arrive during the next MaxChunks reads
StreamChoices(io, n) ==
    {[d1 |-> 0, d2 |-> 0, fault |-> 0, batches |-> Batches(sizes, io.sent)] :
        sizes \in {z \in [1..MaxChunks -> 0..n] : Sum(z) <= n}}

\* what the environment decides when a frame is written
EnvChoices(io, cmd) ==
    IF io.mode = "stream" THEN StreamChoices(io, cmd[1]) ELSE SensorChoices(io, cmd)

----------------------------------------------------------------------------
(* Transport: src/sensor_comm.py *)

\* is_open()
is_open(conn) == conn = "Open"

\* mutant: the requested length, not the received one, is subtracted
ReadChunkAssumesFull(st, received) ==
    IF Len(received) = 0
        THEN [st EXCEPT !.exc = "TimeoutError"]
        ELSE [st EXCEPT !.result = @ \o Take(received, st.length),
                        !.length = @ - Min(st.length, DEFAULT_READ_CHUNK_SIZE)]

\* one pass of the loop of read_bytes, given what connection.read returned
ReadChunk(st, received) ==
    IF Len(received) = 0
        THEN [st EXCEPT !.exc = "TimeoutError"]
        ELSE [st EXCEPT !.result = @ \o Take(received, st.length),
                        !.length = @ - Len(received)]

\* connection.read(n): the first n bytes of those that arrive before the
\* timeout (fewer than n only once the timeout has passed)
StreamRead(buf, n) == Take(buf, n)

\* read_bytes(length) after the is_open() test.  st carries length, the
\* bytes read (result), the bytes that arrive before the pending stream read
\* times out (buf), the batches that arrive during later stream reads
\* (coming), the time spent waiting, the exception raised, and for each
\* stream read the length asked for and the length received (log).
RECURSIVE read_loop(_)
read_loop(st) ==
    IF st.length <= 0 \/ st.exc # "none" THEN st
    ELSE LET read_length == Min(st.length, DEFAULT_READ_CHUNK_SIZE)
             received == StreamRead(st.buf, read_length)
             short == Len(received) < read_length
             st1 == ReadChunk(st, received)
         IN  read_loop(
                [st1 EXCEPT
                    !.buf = IF ~short THEN Drop(st.buf, read_length)
                            ELSE IF st.coming = <<>> THEN <<>> ELSE Head(st.coming),
                    !.coming = IF short /\ st.coming # <<>> THEN Tail(@) ELSE @,
                    !.spent = @ + (IF short THEN DEFAULT_TIMEOUT ELSE 0),
                    !.log = Append(@, [asked |-> read_length,
                                       got |-> Len(received)])])

ReadStart(buf, coming, length) ==
    [length |-> length, result |-> <<>>, buf |-> buf, coming |-> coming,
     spent |-> 0, exc |-> "none", log |-> <<>>]

\* read_bytes(length) on a stream with the arrivals batches
read_bytes(conn, pending, batches, length) ==
    LET first == IF batches = <<>> THEN <<>> ELSE Head(batches)
        rest == IF batches = <<>> THEN <<>> ELSE Tail(batches)
    IN  IF ~is_open(conn)
            THEN [ReadStart(pending, batches, length) EXCEPT !.exc = "RuntimeError"]
            ELSE read_loop(ReadStart(pending \o first, rest, length))

\* mutant: the whole command, length element included, is written
WrittenBytesWhole(cmd) == cmd

\* the bytes connection.write is handed by send_command
WrittenBytes(cmd) == Payload(cmd)

\* the batches of a reply with every byte replaced by the position n of the
\* frame the reply answers
Origins(batches, n) == [k \in DOMAIN batches |-> [j \in DOMAIN batches[k] |-> n]]

\* send_command(command) on an open connection when the environment decides
\* env: the payload is written, the sensor reacts and replies, and the
\* response is read if one is expected.  io are the variables the transport
\* works on, with the bytes returned so far (result), the exception raised
\* (exc) and the stream reads made (log).
Exchange(io, cmd, env) ==
    LET wrote == WrittenBytes(cmd)
        st == IF cmd[1] > 0
                THEN read_bytes(io.connection, io.rx, env.batches, cmd[1])
                ELSE ReadStart(io.rx \o Flatten(env.batches), <<>>, 0)
        response == IF st.exc = "none" THEN st.result ELSE <<>>
        \* the same read, made on the origins of the bytes
        origins == Origins(env.batches, Len(io.trace) + 1)
        sf == IF cmd[1] > 0
                THEN read_bytes(io.connection, io.rxfrom, origins, cmd[1])
                ELSE ReadStart(io.rxfrom \o Flatten(origins), <<>>, 0)
    IN  [io EXCEPT
            !.trace = Append(@, [cmd |-> cmd, wrote |-> wrote, resp |-> response,
                                 status |-> st.exc, at |-> io.now, by |-> io.by,
                                 from |-> IF st.exc = "none" THEN sf.result ELSE <<>>]),
            !.rx = st.buf \o Flatten(st.coming),
            !.rxfrom = sf.buf \o Flatten(sf.coming),
            !.now = @ + st.spent,
            !.sensor = SensorOnFrame(io.sensor, wrote, io.now, env.d1, env.d2),
            !.faults = @ + env.fault,
            !.sent = @ + Len(Flatten(env.batches)),
            !.result = @ \o response,
            !.log = @ \o st.log,
            !.exc = st.exc]

\* every outcome of send_command(command)
send_command(io, cmd) ==
    IF ~is_open(io.connection)
        THEN {[io EXCEPT !.exc = "RuntimeError"]}
        ELSE (IF MayFault(io)
                THEN {[io EXCEPT !.exc = "SerialException", !.faults = @ + 1]}
                ELSE {})
             \cup {Exchange(io, cmd, env) : env \in EnvChoices(io, cmd)}

\* mutant: a failed command is logged and the loop goes on
RECURSIVE send_rest_no_abort(_, _)
send_rest_no_abort(io, commands) ==
    IF commands = <<>> THEN {io}
    ELSE UNION {send_rest_no_abort(io1, Tail(commands)) :
                    io1 \in send_command([io EXCEPT !.exc = "none"], Head(commands))}

\* every outcome of the loop of send_commands over the commands left
RECURSIVE send_rest(_, _)
send_rest(io, commands) ==
    IF commands = <<>> \/ io.exc # "none" THEN {io}
    ELSE UNION {send_rest(io1, Tail(commands)) : io1 \in send_command(io, Head(commands))}

\* every outcome of send_commands(commands)
send_commands(io, commands) ==
    send_rest([io EXCEPT !.result = <<>>, !.exc = "none", !.log = <<>>], commands)

\* the transport as the engine sees it, with the sensor on the line
IO ==
    [connection |-> connection, trace |-> trace, rx |-> rx, rxfrom |-> rxfrom, now |-> now,
     sensor |-> sensor, faults |-> faults, result |-> <<>>, exc |-> "none",
     log |-> <<>>, mode |-> "sensor", sent |-> 0,
     by |-> IF stack = <<>> THEN "none" ELSE stack[Len(stack)].fn]

----------------------------------------------------------------------------
(* Engine: src/sensor_config.py *)

Fns == {"set_uart_auto_start", "flash_backup", "configure", "software_reset",
        "flash_test", "exit_auto_mode", "full_reset", "wait_until_ready",
        "read_word", "detect_identity"}

B(b) == IF b THEN "true" ELSE "false"

\* no word and no identity record: what a call returns besides true, false
\* or none
NoValue ==
    [word |-> 0, product_id |-> <<>>, product_id_raw |-> <<>>, serial_number |-> <<>>,
     product_words |-> <<>>, serial_words |-> <<>>]

Top == stack[Len(stack)]
At(fn, pc) == stack # <<>> /\ Top.fn = fn /\ Top.pc = pc

\* a call of fn(arg): its position, the time its loop started and the words
\* it has collected (detect_identity)
Frame(fn, arg) == [fn |-> fn, pc |-> "start", arg |-> arg, start |-> 0, words |-> <<>>]

\* the stack with the running function moved to pc
Goto(pc) == [stack EXCEPT ![Len(stack)].pc = pc]
\* ... and its loop started at time t
GotoAt(pc, t) == [stack EXCEPT ![Len(stack)].pc = pc, ![Len(stack)].start = t]
\* ... and fn(arg) called from it
Called(pc, fn, arg) == Append(Goto(pc), Frame(fn, arg))
Popped == SubSeq(stack, 1, Len(stack) - 1)

\* what is remembered of the last call of each function: its argument, the
\* time it took start (or was entered), the trace positions of its first and
\* last frames, the exceptions it caught, the value and the time it returned
Entered(h, fn, arg, t, n) ==
    [h EXCEPT ![fn] = [arg |-> arg, start |-> t, first |-> n + 1, last |-> n,
                       ret |-> "none", ended |-> t, caught |-> 0,
                       calls |-> h[fn].calls + 1]]
Left(h, fn, v, t, n) == [h EXCEPT ![fn].ret = v, ![fn].last = n, ![fn].ended = t]
Caught(h, out) ==
    IF out.exc = "none" THEN h ELSE [h EXCEPT ![Top.fn].caught = @ + 1]

\* the running function goes on at pc after the transport outcome out and a
\* sleep of dt ticks
Continue(out, dt, stk, h) ==
    /\ trace' = out.trace /\ rx' = out.rx /\ rxfrom' = out.rxfrom
    /\ sensor' = out.sensor
    /\ faults' = out.faults /\ now' = out.now + dt
    /\ stack' = stk /\ hist' = Caught(h, out)
    /\ UNCHANGED <<connection, ret, call, retval>>

\* the running function returns v after the transport outcome out and a sleep
\* of dt ticks
Return(out, dt, v) ==
    /\ trace' = out.trace /\ rx' = out.rx /\ rxfrom' = out.rxfrom
    /\ sensor' = out.sensor
    /\ faults' = out.faults /\ now' = out.now + dt
    /\ stack' = Popped /\ ret' = v
    /\ hist' = Left(Caught(hist, out), Top.fn, v, out.now + dt, Len(out.trace))
    /\ UNCHANGED <<connection, call, retval>>

\* the running function calls fn(arg), which is entered at the time of the
\* call, and goes on at pc when it returns
Call(out, dt, pc, fn, arg) ==
    Continue(out, dt,
             [Called(pc, fn, arg) EXCEPT ![Len(stack) + 1].start = out.now + dt],
             Entered(hist, fn, arg, out.now + dt, Len(out.trace)))

\* (glob_cmd_low & 0b00001000) == 0, glob_cmd_low = result[2]
BackupDone(result) == ~BitSet(result[3], 3)
\* mutant: the verification tests FLASH_ERR (bit2) instead of FLASH_BU_ERR
BackupVerifiedBit2(result) == ~BitSet(result[3], 2)
\* (diag_stat1_low & 0b00000001) == 0, diag_stat1_low = result[2]
BackupVerified(result) == ~BitSet(result[3], 0)
\* ((result[-3] << 8) | result[-2]) & 0x0400 == 0
Bit10Clear(result) == ~BitSet(Word(FromEnd(result, 3), FromEnd(result, 2)), 10)
\* mutant: FLASH_BU_ERR (bit0) is tested instead of FLASH_ERR
FlashErrBit0(result) == BitSet(FromEnd(result, 2), 0)
\* diag_result[-2] & 0x04
FlashErr(result) == BitSet(FromEnd(result, 2), 2)

\* flash_backup, step 1: write the FLASH_BACKUP command, take start_time
flash_backup_start ==
    /\ At("flash_backup", "start")
    /\ \E out \in send_commands(IO, <<SelectWindow(1), WriteReg(138, 8)>>) :
        IF out.exc # "none"
            THEN Return(out, 0, "false")
            ELSE Continue(out, 0, GotoAt("poll", out.now),
                          [hist EXCEPT !["flash_backup"].start = out.now])

\* mutant: a poll that raised is taken for a busy one and polling goes on
flash_backup_poll_tolerant ==
    /\ At("flash_backup", "poll")
    /\ now - Top.start < FLASH_BACKUP_TIMEOUT
    /\ \E out \in send_commands(IO, <<SelectWindow(1), ReadReg(10)>>) :
        IF out.exc = "none" /\ Len(out.result) >= 4 /\ BackupDone(out.result)
            THEN Continue(out, 0, Goto("verify"), hist)
            ELSE Continue(out, BACKUP_POLL_INTERVAL, stack, hist)

\* flash_backup, step 2: one pass of the polling loop
flash_backup_poll ==
    /\ At("flash_backup", "poll")
    /\ now - Top.start < FLASH_BACKUP_TIMEOUT
    /\ \E out \in send_commands(IO, <<SelectWindow(1), ReadReg(10)>>) :
        IF out.exc # "none"
            THEN Return(out, 0, "false")
        ELSE IF Len(out.result) >= 4 /\ BackupDone(out.result)
            THEN Continue(out, 0, Goto("verify"), hist)
        ELSE Continue(out, BACKUP_POLL_INTERVAL, stack, hist)

\* mutant: the polling loop has no else clause and falls through to step 3
flash_backup_timeout_falls_through ==
    /\ At("flash_backup", "poll")
    /\ ~(now - Top.start < FLASH_BACKUP_TIMEOUT)
    /\ Continue(IO, 0, Goto("verify"), hist)

\* flash_backup, the else clause of the polling loop
flash_backup_timeout ==
    /\ At("flash_backup", "poll")
    /\ ~(now - Top.start < FLASH_BACKUP_TIMEOUT)
    /\ Return(IO, 0, "false")

\* flash_backup, step 3: verify FLASH_BU_ERR in DIAG_STAT1
flash_backup_verify ==
    /\ At("flash_backup", "verify")
    /\ \E out \in send_commands(IO, <<SelectWindow(0), ReadReg(4)>>) :
        IF out.exc # "none"
            THEN Return(out, 0, "false")
        ELSE IF Len(out.result) >= 4
            THEN Return(out, 0, B(BackupVerified(out.result)))
        ELSE Return(out, 0, "false")

\* mutant: an exception during a poll ends the wait with False
wait_until_ready_poll_fatal ==
    /\ At("wait_until_ready", "start")
    /\ now - Top.start < Top.arg
    /\ \E out \in send_commands(IO, <<SelectWindow(1), ReadReg(10)>>) :
        IF out.exc # "none"
            THEN Return(out, 0, "false")
        ELSE IF Len(out.result) >= 4 /\ Bit10Clear(out.result)
            THEN Return(out, 0, "true")
        ELSE Continue(out, READY_POLL_SLEEP, stack, hist)

\* mutant: start is taken anew in every pass of the loop
wait_until_ready_poll_restarts ==
    /\ At("wait_until_ready", "start")
    /\ now - Top.start < Top.arg
    /\ \E out \in send_commands(IO, <<SelectWindow(1), ReadReg(10)>>) :
        IF out.exc = "none" /\ Len(out.result) >= 4 /\ Bit10Clear(out.result)
            THEN Return(out, 0, "true")
            ELSE Continue(out, READY_POLL_SLEEP,
                          GotoAt("start", out.now + READY_POLL_SLEEP), hist)

\* _wait_until_ready(timeout): one pass of the loop; exceptions are swallowed
wait_until_ready_poll ==
    /\ At("wait_until_ready", "start")
    /\ now - Top.start < Top.arg
    /\ \E out \in send_commands(IO, <<SelectWindow(1), ReadReg(10)>>) :
        IF out.exc = "none" /\ Len(out.result) >= 4 /\ Bit10Clear(out.result)
            THEN Return(out, 0, "true")
            ELSE Continue(out, READY_POLL_SLEEP, stack, hist)

\* _wait_until_ready(timeout): the loop condition fails
wait_until_ready_timeout ==
    /\ At("wait_until_ready", "start")
    /\ ~(now - Top.start < Top.arg)
    /\ Return(IO, 0, "false")

\* mutant: the reset spell is sent twice
ResetSpellsTwice == <<ResetSpell, ResetSpell>>

\* reset_sensor(): the three reset spells
ResetSpells == <<ResetSpell, ResetSpell, ResetSpell>>

\* set_uart_auto_start: reset_sensor() and the settling delay
set_uart_auto_start_reset ==
    /\ At("set_uart_auto_start", "start")
    /\ \E out \in send_commands(IO, ResetSpells) :
        IF out.exc # "none"
            THEN Return(out, 0, "false")
            ELSE Continue(out, RESET_SETTLE, Goto("write"), hist)

\* mutant: the UART_CTRL write is outside the try block and its exception
\* reaches the caller
set_uart_auto_start_write_raises ==
    /\ At("set_uart_auto_start", "write")
    /\ \E out \in send_commands(IO, <<SelectWindow(1), WriteReg(136, 3)>>) :
        Return(out, 0, IF out.exc = "none" THEN "true" ELSE "raised")

\* set_uart_auto_start: UART_CTRL <- 0x03 under window 1
set_uart_auto_start_write ==
    /\ At("set_uart_auto_start", "write")
    /\ \E out \in send_commands(IO, <<SelectWindow(1), WriteReg(136, 3)>>) :
        Return(out, 0, B(out.exc = "none"))

\* configure: set_uart_auto_start()
configure_start ==
    /\ At("configure", "start")
    /\ Call(IO, 0, "after_set", "set_uart_auto_start", "none")

\* mutant: the result of set_uart_auto_start() is not tested
configure_after_set_unchecked ==
    /\ At("configure", "after_set")
    /\ Call(IO, 0, "after_backup", "flash_backup", "none")

\* configure: flash_backup() unless set_uart_auto_start() failed
configure_after_set ==
    /\ At("configure", "after_set")
    /\ IF ret # "true"
        THEN Return(IO, 0, "false")
        ELSE Call(IO, 0, "after_backup", "flash_backup", "none")

configure_after_backup ==
    /\ At("configure", "after_backup")
    /\ Return(IO, 0, B(ret = "true"))

\* software_reset: GLOB_CMD <- 0x80 under window 1, then _wait_until_ready(7.0)
software_reset_start ==
    /\ At("software_reset", "start")
    /\ \E out \in send_commands(IO, <<SelectWindow(1), WriteReg(138, 128)>>) :
        IF out.exc # "none"
            THEN Return(out, 0, "false")
            ELSE Call(out, 0, "after_wait", "wait_until_ready", SW_RESET_READY_TIMEOUT)

\* mutant: the reset is taken to have succeeded once the wait is over
software_reset_after_wait_true ==
    /\ At("software_reset", "after_wait")
    /\ Return(IO, 0, "true")

\* software_reset: return self._wait_until_ready(timeout=7.0)
software_reset_after_wait ==
    /\ At("software_reset", "after_wait")
    /\ Return(IO, 0, ret)

\* flash_test: MSC_CTRL <- 0x08 under window 1, take start
flash_test_start ==
    /\ At("flash_test", "start")
    /\ \E out \in send_commands(IO, <<SelectWindow(1), WriteReg(131, 8)>>) :
        IF out.exc # "none"
            THEN Return(out, 0, "false")
            ELSE Continue(out, 0, GotoAt("poll", out.now),
                          [hist EXCEPT !["flash_test"].start = out.now])

\* flash_test: one pass of the polling loop
flash_test_poll ==
    /\ At("flash_test", "poll")
    /\ now - Top.start < FLASH_BACKUP_TIMEOUT
    /\ \E out \in send_commands(IO, <<SelectWindow(1), ReadReg(2)>>) :
        IF out.exc # "none"
            THEN Return(out, 0, "false")
        ELSE IF Len(out.result) >= 4 /\ Bit10Clear(out.result)
            THEN Continue(out, 0, Goto("diag"), hist)
        ELSE Continue(out, BACKUP_POLL_INTERVAL, stack, hist)

\* flash_test: the else clause of the polling loop
flash_test_timeout ==
    /\ At("flash_test", "poll")
    /\ ~(now - Top.start < FLASH_BACKUP_TIMEOUT)
    /\ Return(IO, 0, "false")

\* flash_test: check FLASH_ERR in DIAG_STAT1, then _wait_until_ready(2.0)
flash_test_diag ==
    /\ At("flash_test", "diag")
    /\ \E out \in send_commands(IO, <<SelectWindow(0), ReadReg(4)>>) :
        IF out.exc # "none"
            THEN Return(out, 0, "false")
        ELSE IF Len(out.result) >= 4 /\ FlashErr(out.result)
            THEN Return(out, 0, "false")
        ELSE Call(out, 0, "after_wait", "wait_until_ready", FLASH_TEST_READY_TIMEOUT)

\* mutant: return self._wait_until_ready(timeout=2.0)
flash_test_after_wait_returned ==
    /\ At("flash_test", "after_wait")
    /\ Return(IO, 0, ret)

\* flash_test: the result of the wait is not used
flash_test_after_wait ==
    /\ At("flash_test", "after_wait")
    /\ Return(IO, 0, "true")

\* exit_auto_mode: the mode-exit write 0x83 <- 0x02 under window 0, sleep 0.05
exit_auto_mode_start ==
    /\ At("exit_auto_mode", "start")
    /\ \E out \in send_commands(IO, <<SelectWindow(0), WriteReg(131, 2)>>) :
        IF out.exc # "none"
            THEN Return(out, 0, "false")
            ELSE Continue(out, MODE_EXIT_DELAY, Goto("read"), hist)

\* mutant: the MODE_CTRL value is logged but not required
exit_auto_mode_read_unchecked ==
    /\ At("exit_auto_mode", "read")
    /\ \E out \in send_commands(IO, <<SelectWindow(0), ReadReg(2)>>) :
        IF out.exc # "none"
            THEN Return(out, 0, "false")
        ELSE IF Len(out.result) < 4
            THEN Return(out, 0, "false")
        ELSE Continue(out, 0, Goto("clear"), hist)

\* mutant: the mode-exit write is sent again while the sensor does not report
\* configuration mode
exit_auto_mode_read_retries ==
    /\ At("exit_auto_mode", "read")
    /\ \E out \in send_commands(IO, <<SelectWindow(0), ReadReg(2)>>) :
        IF out.exc # "none"
            THEN Return(out, 0, "false")
        ELSE IF Len(out.result) < 4
            THEN Return(out, 0, "false")
        ELSE IF Bit10Clear(out.result)
            THEN Continue(out, 0, Goto("start"), hist)
        ELSE Continue(out, 0, Goto("clear"), hist)

\* exit_auto_mode: read MODE_CTRL, require bit 0x0400
exit_auto_mode_read ==
    /\ At("exit_auto_mode", "read")
    /\ \E out \in send_commands(IO, <<SelectWindow(0), ReadReg(2)>>) :
        IF out.exc # "none"
            THEN Return(out, 0, "false")
        ELSE IF Len(out.result) < 4
            THEN Return(out, 0, "false")
        ELSE IF Bit10Clear(out.result)
            THEN Return(out, 0, "false")
        ELSE Continue(out, 0, Goto("clear"), hist)

\* exit_auto_mode: UART_CTRL <- 0x00 under window 1, flash_backup() if asked
exit_auto_mode_clear ==
    /\ At("exit_auto_mode", "clear")
    /\ \E out \in send_commands(IO, <<SelectWindow(1), WriteReg(136, 0)>>) :
        IF out.exc # "none"
            THEN Return(out, 0, "false")
        ELSE IF Top.arg = "true"
            THEN Call(out, 0, "after_backup", "flash_backup", "none")
        ELSE Continue(out, 0, Goto("close"), hist)

\* mutant: window 0 is restored before a failed flash_backup() is reported
exit_auto_mode_after_backup_restores ==
    /\ At("exit_auto_mode", "after_backup")
    /\ IF ret # "true"
        THEN \E out \in send_commands(IO, <<SelectWindow(0)>>) : Return(out, 0, "false")
        ELSE Continue(IO, 0, Goto("close"), hist)

\* mutant: the result of flash_backup() is not tested
exit_auto_mode_after_backup_unchecked ==
    /\ At("exit_auto_mode", "after_backup")
    /\ Continue(IO, 0, Goto("close"), hist)

\* exit_auto_mode: a failed flash_backup() is fatal
exit_auto_mode_after_backup ==
    /\ At("exit_auto_mode", "after_backup")
    /\ IF ret # "true"
        THEN Return(IO, 0, "false")
        ELSE Continue(IO, 0, Goto("close"), hist)

\* exit_auto_mode: restore window 0
exit_auto_mode_close ==
    /\ At("exit_auto_mode", "close")
    /\ \E out \in send_commands(IO, <<SelectWindow(0)>>) :
        Return(out, 0, B(out.exc = "none"))

\* mutant: exit_auto_mode is run whatever persist_disable_auto is
full_reset_start_always_exits ==
    /\ At("full_reset", "start")
    /\ Call(IO, 0, "after_exit", "exit_auto_mode", Top.arg)

\* full_reset: exit_auto_mode(True), or the window-0 select
full_reset_start ==
    /\ At("full_reset", "start")
    /\ IF Top.arg = "true"
        THEN Call(IO, 0, "after_exit", "exit_auto_mode", "true")
        ELSE \E out \in send_commands(IO, <<SelectWindow(0)>>) :
                IF out.exc # "none"
                    THEN Return(out, 0, "false")
                    ELSE Continue(out, 0, Goto("reset"), hist)

\* mutant: the result of exit_auto_mode(True) is not tested
full_reset_after_exit_unchecked ==
    /\ At("full_reset", "after_exit")
    /\ Continue(IO, 0, Goto("reset"), hist)

\* full_reset: a failed exit_auto_mode(True) is fatal
full_reset_after_exit ==
    /\ At("full_reset", "after_exit")
    /\ IF ret # "true"
        THEN Return(IO, 0, "false")
        ELSE Continue(IO, 0, Goto("reset"), hist)

\* full_reset: reset_sensor(), the settling delay, flash_test()
full_reset_reset ==
    /\ At("full_reset", "reset")
    /\ \E out \in send_commands(IO, ResetSpells) :
        IF out.exc # "none"
            THEN Return(out, 0, "false")
            ELSE Call(out, RESET_SETTLE, "after_test", "flash_test", "none")

\* mutant: a failed flash test aborts the reset
full_reset_after_test_fatal ==
    /\ At("full_reset", "after_test")
    /\ IF ret # "true"
        THEN Return(IO, 0, "false")
        ELSE Call(IO, 0, "after_reset", "software_reset", "none")

\* full_reset: a failed flash test is only logged; software_reset()
full_reset_after_test ==
    /\ At("full_reset", "after_test")
    /\ Call(IO, 0, "after_reset", "software_reset", "none")

\* full_reset: a failed software reset is fatal; else the stabilization delay
full_reset_after_reset ==
    /\ At("full_reset", "after_reset")
    /\ IF ret # "true"
        THEN Return(IO, 0, "false")
        ELSE Return(IO, STABILIZE_DELAY, "true")

\* the running function returns v together with the word or record val
ReturnValue(out, dt, v, val) ==
    /\ trace' = out.trace /\ rx' = out.rx /\ rxfrom' = out.rxfrom
    /\ sensor' = out.sensor
    /\ faults' = out.faults /\ now' = out.now + dt
    /\ stack' = Popped /\ ret' = v /\ retval' = val
    /\ hist' = Left(Caught(hist, out), Top.fn, v, out.now + dt, Len(out.trace))
    /\ UNCHANGED <<connection, call>>

\* mutant: the word is taken from the first two bytes of the response
ReadWordValueFromStart(result) == Word(result[1], result[2])

\* (msb << 8) | lsb with msb = result[-3], lsb = result[-2]
ReadWordValue(result) == Word(FromEnd(result, 3), FromEnd(result, 2))

\* _read_word(address, window): "word" with the word read, or "None"
read_word_call ==
    /\ At("read_word", "start")
    /\ \E out \in send_commands(IO, <<SelectWindow(Top.arg.window % 256),
                                       ReadReg(Top.arg.address % 256)>>) :
        IF out.exc # "none" \/ Len(out.result) < 4
            THEN ReturnValue(out, 0, "None", NoValue)
            ELSE ReturnValue(out, 0, "word",
                             [NoValue EXCEPT !.word = ReadWordValue(out.result)])

\* mutant: the high byte of a word comes first
WordBytesHighFirst(word, little_endian) ==
    LET low == word % 256
        high == (word \div 256) % 256
    IN  <<high, low>>

\* order = (low, high) if little_endian else (high, low)
WordBytes(word, little_endian) ==
    LET low == word % 256
        high == (word \div 256) % 256
    IN  IF little_endian THEN <<low, high>> ELSE <<high, low>>

\* the characters appended for a sequence of bytes: every byte but 0x00
RECURSIVE AppendChars(_)
AppendChars(bytes) ==
    IF bytes = <<>> THEN <<>>
    ELSE (IF Head(bytes) # 0 THEN <<Head(bytes)>> ELSE <<>>) \o AppendChars(Tail(bytes))

\* the characters str.strip() removes, among the characters of a byte
Whitespace == {9, 10, 11, 12, 13, 28, 29, 30, 31, 32, 133, 160}

RECURSIVE LStrip(_)
LStrip(chars) ==
    IF chars # <<>> /\ Head(chars) \in Whitespace THEN LStrip(Tail(chars)) ELSE chars

RECURSIVE RStrip(_)
RStrip(chars) ==
    IF chars # <<>> /\ chars[Len(chars)] \in Whitespace
        THEN RStrip(SubSeq(chars, 1, Len(chars) - 1)) ELSE chars

\* "".join(chars).strip() over the words in order; a string is the sequence
\* of its character codes
RECURSIVE decode_chars(_, _)
decode_chars(words, little_endian) ==
    IF words = <<>> THEN <<>>
    ELSE AppendChars(WordBytes(Head(words), little_endian))
            \o decode_chars(Tail(words), little_endian)

decode_ascii_words(words, little_endian) ==
    LStrip(RStrip(decode_chars(words, little_endian)))

\* PRODUCT_ID_ALIASES: "A342VD10" -> "M-A542VR1"
A342VD10 == <<65, 51, 52, 50, 86, 68, 49, 48>>
M_A542VR1 == <<77, 45, 65, 53, 52, 50, 86, 82, 49>>
ProductIdAlias(product_id_raw) ==
    IF product_id_raw = A342VD10 THEN M_A542VR1 ELSE product_id_raw

\* the record detect_identity returns for the eight words read
IdentityRecord(words) ==
    LET product_words == SubSeq(words, 1, 4)
        serial_words == SubSeq(words, 5, 8)
        product_id_raw == decode_ascii_words(product_words, TRUE)
    IN  [NoValue EXCEPT !.product_id = ProductIdAlias(product_id_raw),
                        !.product_id_raw = product_id_raw,
                        !.serial_number = decode_ascii_words(serial_words, TRUE),
                        !.product_words = product_words,
                        !.serial_words = serial_words]

\* detect_identity: the next register of the product id, then of the serial
\* number, is read under window 1
detect_identity_read ==
    /\ At("detect_identity", "start")
    /\ Len(Top.words) < Len(IdentityRegisters)
    /\ Call(IO, 0, "word", "read_word",
            [address |-> IdentityRegisters[Len(Top.words) + 1], window |-> 1])

\* mutant: a register that could not be read counts as the word 0
detect_identity_word_skips ==
    /\ At("detect_identity", "word")
    /\ LET words == Append(Top.words, IF ret = "None" THEN 0 ELSE retval.word)
           pc == IF Len(words) < Len(IdentityRegisters) THEN "start" ELSE "restore"
       IN  Continue(IO, 0, [Goto(pc) EXCEPT ![Len(stack)].words = words], hist)

\* detect_identity: a failed read ends it with None, else the word is kept
detect_identity_word ==
    /\ At("detect_identity", "word")
    /\ IF ret = "None"
        THEN Return(IO, 0, "None")
        ELSE LET words == Append(Top.words, retval.word)
                 pc == IF Len(words) < Len(IdentityRegisters) THEN "start" ELSE "restore"
             IN  Continue(IO, 0, [Goto(pc) EXCEPT ![Len(stack)].words = words], hist)

\* detect_identity: window 0 is selected again and the record returned; an
\* exception of this write is not caught and reaches the caller
detect_identity_restore ==
    /\ At("detect_identity", "restore")
    /\ \E out \in send_commands(IO, <<SelectWindow(0)>>) :
        IF out.exc # "none"
            THEN Return(out, 0, "raised")
            ELSE ReturnValue(out, 0, "identity", IdentityRecord(Top.words))

----------------------------------------------------------------------------
(* The engine's specification: one operation is run on a transport that is  *)
(* open or not.                                                             *)

\* the addresses _read_word is tried with: DIAG_STAT1, GLOB_CMD, two identity
\* registers and an address wider than a byte
ReadWordAddresses == {4, 10, 106, 122, 362}

Operations ==
    {Frame(fn, "none") : fn \in {"set_uart_auto_start", "flash_backup", "configure",
                                 "software_reset", "flash_test"}}
    \cup {Frame(fn, p) : fn \in {"exit_auto_mode", "full_reset"}, p \in {"true", "false"}}
    \cup {Frame("detect_identity", "none")}
    \cup {Frame("read_word", [address |-> a, window |-> w]) :
                a \in ReadWordAddresses, w \in {0, 1}}

\* the session entry points of configure_auto_start.py
EntryPoints ==
    {"configure_sensor", "detect_sensor_identity", "exit_auto_mode_cli", "reset_sensor_cli"}

HistInit ==
    [fn \in Fns \cup EntryPoints |-> [arg |-> "none", start |-> 0, first |-> 0, last |-> 0,
                     ret |-> "none", ended |-> 0, caught |-> 0, calls |-> 0]]

NoCall ==
    [op |-> "none", cmds |-> <<>>, conn0 |-> "None", len0 |-> 0, rx0 |-> <<>>,
     delivered |-> <<>>, result |-> <<>>, exc |-> "none", log |-> <<>>,
     sent |-> 0, ops |-> 0]

Init ==
    /\ connection \in {"None", "Open"}
    /\ trace = <<>>
    /\ rx = <<>>
    /\ rxfrom = <<>>
    /\ now = 0
    /\ faults = 0
    /\ \E op \in Operations :
        /\ stack = <<op>>
        /\ hist = Entered(HistInit, op.fn, op.arg, 0, 0)
        /\ sensor \in {[SensorInit EXCEPT !.window = w, !.id = k] :
                            w \in {0, 1},
                            k \in IF op.fn \in {"detect_identity", "read_word"}
                                    THEN DOMAIN Identities ELSE {1}}
    /\ ret = "none"
    /\ call = NoCall
    /\ retval = NoValue

Next ==
    \/ flash_backup_start \/ flash_backup_poll \/ flash_backup_timeout
    \/ flash_backup_verify
    \/ wait_until_ready_poll \/ wait_until_ready_timeout
    \/ set_uart_auto_start_reset \/ set_uart_auto_start_write
    \/ configure_start \/ configure_after_set \/ configure_after_backup
    \/ software_reset_start \/ software_reset_after_wait
    \/ flash_test_start \/ flash_test_poll \/ flash_test_timeout
    \/ flash_test_diag \/ flash_test_after_wait
    \/ exit_auto_mode_start \/ exit_auto_mode_read \/ exit_auto_mode_clear
    \/ exit_auto_mode_after_backup \/ exit_auto_mode_close
    \/ full_reset_start \/ full_reset_after_exit \/ full_reset_reset
    \/ full_reset_after_test \/ full_reset_after_reset
    \/ read_word_call
    \/ detect_identity_read \/ detect_identity_word \/ detect_identity_restore

Spec == Init /\ [][Next]_vars

----------------------------------------------------------------------------
(* Sessions: src/configure_auto_start.py.  One entry point is run: it       *)
(* builds the transport, opens it, runs one engine operation and closes.    *)

\* the engine operation an entry point runs, as the frame of its call
SessionOperation(entry, arg) ==
    IF entry = "configure_sensor" THEN Frame("configure", "none")
    ELSE IF entry = "detect_sensor_identity" THEN Frame("detect_identity", "none")
    ELSE IF entry = "exit_auto_mode_cli" THEN Frame("exit_auto_mode", arg)
    ELSE Frame("full_reset", "true")

\* the entry point ends: what is left of the state is unchanged
SessionStep(stk, v, conn, h) ==
    /\ stack' = stk /\ ret' = v /\ connection' = conn /\ hist' = h
    /\ UNCHANGED <<trace, rx, rxfrom, now, sensor, faults, call, retval>>

\* the port name is invalid, or SensorCommunication(...) raises: comm is None
\* and the finally clause has nothing to close
session_invalid ==
    /\ stack # <<>> /\ Top.fn \in EntryPoints /\ Top.pc = "start"
    /\ SessionStep(Popped, "false", connection,
                   Left(hist, Top.fn, "false", now, Len(trace)))

\* comm = SensorCommunication(port, baud)
session_construct ==
    /\ stack # <<>> /\ Top.fn \in EntryPoints /\ Top.pc = "start"
    /\ SessionStep(Goto("open"), ret, connection, hist)

\* comm.open() acquires the stream
session_open ==
    /\ stack # <<>> /\ Top.fn \in EntryPoints /\ Top.pc = "open"
    /\ SessionStep(Goto("call"), ret, "Open", hist)

\* comm.open() raises (permission denied, port not found, ...): False is
\* returned through the finally clause
session_open_fails ==
    /\ stack # <<>> /\ Top.fn \in EntryPoints /\ Top.pc = "open"
    /\ SessionStep(Goto("finally"), "false", connection, hist)

\* SensorConfigurator(comm) and the call of the engine operation
session_call ==
    /\ stack # <<>> /\ Top.fn \in EntryPoints /\ Top.pc = "call"
    /\ LET op == SessionOperation(Top.fn, Top.arg)
       IN  Call(IO, 0, "run", op.fn, op.arg)

\* the entry point's result: the operation's boolean, or whether an identity
\* was returned; an exception of the operation is caught and gives False
session_result ==
    /\ stack # <<>> /\ Top.fn \in EntryPoints /\ Top.pc = "run"
    /\ SessionStep(Goto("finally"), B(ret \in {"true", "identity"}), connection, hist)

\* mutant: the transport is closed on the success path only
session_finally_on_success ==
    /\ stack # <<>> /\ Top.fn \in EntryPoints /\ Top.pc = "finally"
    /\ SessionStep(Popped, ret,
                   IF ret = "true" /\ connection # "None" THEN "None" ELSE connection,
                   Left(hist, Top.fn, ret, now, Len(trace)))

\* finally: if comm: comm.close()
session_finally ==
    /\ stack # <<>> /\ Top.fn \in EntryPoints /\ Top.pc = "finally"
    /\ SessionStep(Popped, ret,
                   IF connection # "None" THEN "None" ELSE connection,
                   Left(hist, Top.fn, ret, now, Len(trace)))

Sessions ==
    {Frame(entry, "none") : entry \in EntryPoints \ {"exit_auto_mode_cli"}}
    \cup {Frame("exit_auto_mode_cli", p) : p \in {"true", "false"}}

SessionInit ==
    /\ connection = "None"
    /\ trace = <<>>
    /\ rx = <<>>
    /\ rxfrom = <<>>
    /\ now = 0
    /\ faults = 0
    /\ \E session \in Sessions :
        /\ stack = <<session>>
        /\ hist = Entered(HistInit, session.fn, session.arg, 0, 0)
        /\ sensor \in {[SensorInit EXCEPT !.window = w, !.id = k] :
                            w \in {0, 1},
                            k \in IF session.fn = "detect_sensor_identity"
                                    THEN DOMAIN Identities ELSE {1}}
    /\ ret = "none"
    /\ call = NoCall
    /\ retval = NoValue

SessionNext ==
    \/ session_invalid \/ session_construct \/ session_open \/ session_open_fails
    \/ session_call \/ session_result \/ session_finally
    \/ Next

SpecSession == SessionInit /\ [][SessionNext]_vars

----------------------------------------------------------------------------
(* The transport's specification: calls of open, close, send_command,       *)
(* send_commands and read_bytes in any order, on a bare byte stream.        *)

\* the transport as its caller sees it, with a bare byte stream on the line
CommIO == [IO EXCEPT !.mode = "stream", !.sent = call.sent]

CommCmds == {SelectWindow(1), <<CommRespLen, 10, 0, CR>>, <<1, 2, 0, CR>>}
CommLists == UNION {[1..n -> CommCmds] : n \in 1..MaxCommFrames}

\* what is remembered of the call made last: the state it found, the bytes
\* that were pending or arrived during it (delivered), what it returned
\* (result) or raised (exc), and the stream reads it made (log)
Called_(op, cmds, out) ==
    [op |-> op, cmds |-> cmds, conn0 |-> connection, len0 |-> Len(trace),
     rx0 |-> rx, delivered |-> rx \o Bytes(call.sent, out.sent - call.sent),
     result |-> IF out.exc = "none" THEN out.result ELSE <<>>,
     exc |-> out.exc, log |-> out.log, sent |-> out.sent,
     ops |-> call.ops + Len(cmds)]

EngineIdle == UNCHANGED <<sensor, stack, ret, hist, retval>>

\* open(): the stream is acquired
comm_open ==
    /\ connection' = "Open"
    /\ call' = Called_("open", <<>>, CommIO)
    /\ UNCHANGED <<trace, rx, rxfrom, now, faults>> /\ EngineIdle

\* open(): Serial(...) raises and the assignment does not happen
comm_open_fails ==
    /\ call' = Called_("open", <<>>, [CommIO EXCEPT !.exc = "SerialException"])
    /\ UNCHANGED <<connection, trace, rx, rxfrom, now, faults>> /\ EngineIdle

\* mutant: close() without the test of self.connection
comm_close_unguarded ==
    /\ connection' = "None"
    /\ call' = Called_("close", <<>>,
                       [CommIO EXCEPT !.exc = IF connection = "None"
                                               THEN "AttributeError" ELSE "none"])
    /\ UNCHANGED <<trace, rx, rxfrom, now, faults>> /\ EngineIdle

\* close()
comm_close ==
    /\ connection' = IF connection # "None" THEN "None" ELSE connection
    /\ call' = Called_("close", <<>>, CommIO)
    /\ UNCHANGED <<trace, rx, rxfrom, now, faults>> /\ EngineIdle

\* the caller sees the outcome out of a transport call
CommDone(op, cmds, out) ==
    /\ trace' = out.trace /\ rx' = out.rx /\ rxfrom' = out.rxfrom
    /\ now' = out.now /\ faults' = out.faults
    /\ call' = Called_(op, cmds, out)
    /\ UNCHANGED connection /\ EngineIdle

\* send_command(command)
comm_send_command ==
    /\ call.ops < MaxCommFrames
    /\ \E cmd \in CommCmds : \E out \in send_command(CommIO, cmd) :
        CommDone("send_command", <<cmd>>, out)

\* send_commands(commands)
comm_send_commands ==
    \E cmds \in CommLists :
        /\ call.ops + Len(cmds) <= MaxCommFrames
        /\ \E out \in send_commands(CommIO, cmds) :
            CommDone("send_commands", cmds, out)

\* read_bytes(length)
comm_read_bytes ==
    \E n \in 1..CommRespLen :
        /\ call.ops < MaxCommFrames
        /\ \E env \in (IF is_open(connection) THEN StreamChoices(CommIO, n)
                       ELSE StreamChoices(CommIO, 0)) :
            LET st == read_bytes(connection, rx, env.batches, n)
                sf == read_bytes(connection, rxfrom, Origins(env.batches, 0), n)
                late == IF st.spent > 0 THEN 1 ELSE 0
            IN  /\ faults + late <= MaxFaults
                /\ CommDone("read_bytes", <<<<n>>>>,
                         [CommIO EXCEPT !.rx = st.buf \o Flatten(st.coming),
                                        !.rxfrom = sf.buf \o Flatten(sf.coming),
                                        !.now = @ + st.spent,
                                        !.faults = @ + late,
                                        !.sent = @ + Len(Flatten(env.batches)),
                                        !.result = st.result,
                                        !.log = st.log,
                                        !.exc = st.exc])

CommInit ==
    /\ connection = "None"
    /\ trace = <<>>
    /\ rx = <<>>
    /\ rxfrom = <<>>
    /\ now = 0
    /\ sensor = SensorInit
    /\ faults = 0
    /\ stack = <<>>
    /\ hist = HistInit
    /\ ret = "none"
    /\ call = NoCall
    /\ retval = NoValue

CommNext ==
    \/ comm_open \/ comm_open_fails \/ comm_close
    \/ comm_send_command \/ comm_send_commands \/ comm_read_bytes

SpecComm == CommInit /\ [][CommNext]_vars

----------------------------------------------------------------------------
(* Reading the command trace *)

Frames == DOMAIN trace
Wrote(i, payload) == i \in Frames /\ trace[i].wrote = payload
Written(payload) == {i \in Frames : trace[i].wrote = payload}

\* frame i is a read of addr under window w that returned four bytes
ReadOk(i, addr, w) ==
    /\ i \in Frames /\ i > 1
    /\ trace[i].cmd = <<4, addr, 0, CR>>
    /\ trace[i - 1].wrote = <<254, w, CR>>
    /\ trace[i].status = "none"
    /\ Len(trace[i].resp) >= 4

\* the 16-bit value and the low byte of the response to frame i
RespWord(i) == Word(trace[i].resp[2], trace[i].resp[3])
RespLow(i) == trace[i].resp[3]

Returned(fn) == hist[fn].calls > 0 /\ hist[fn].ret # "none"
\* the positions of the frames written during the last call of fn
Range(fn) ==
    IF hist[fn].calls = 0 THEN {}
    ELSE hist[fn].first .. (IF hist[fn].ret = "none" THEN Len(trace) ELSE hist[fn].last)
InRange(fn, i) ==
    /\ hist[fn].calls > 0 /\ i \in Frames
    /\ hist[fn].first <= i
    /\ (hist[fn].ret = "none" \/ i <= hist[fn].last)

----------------------------------------------------------------------------
(* Claims *)

\* frame j is a MODE_CTRL read of this call of exit_auto_mode, issued after the
\* mode-exit write, that shows bit 0x0400
ModeConfirmed(j) ==
    /\ InRange("exit_auto_mode", j)
    /\ ReadOk(j, 2, 0)
    /\ BitSet(RespWord(j), 10)
    /\ \E k \in hist["exit_auto_mode"].first .. (j - 1) : Wrote(k, <<131, 2, CR>>)

\* C1: in exit_auto_mode every UART_CTRL clear write (0x88 <- 0x00) is preceded
\* in the same call by a MODE_CTRL response with bit 0x0400 set, and a call in
\* which no MODE_CTRL read showed that bit returns false without that write.
C1_ExitAutoModeGuard ==
    LET clears == Written(<<136, 0, CR>>)
    IN  /\ \A i \in clears :
            \E j \in Range("exit_auto_mode") : j < i /\ ModeConfirmed(j)
        /\ (Returned("exit_auto_mode")
            /\ ~\E j \in Range("exit_auto_mode") : ModeConfirmed(j))
            => (hist["exit_auto_mode"].ret = "false" /\ clears = {})

\* exit_auto_mode has returned false after a MODE_CTRL read without bit 0x0400
C1_Witness ==
    /\ Returned("exit_auto_mode")
    /\ hist["exit_auto_mode"].ret = "false"
    /\ \E j \in Range("exit_auto_mode") : ReadOk(j, 2, 0) /\ ~BitSet(RespWord(j), 10)

\* (a) the start write of the last flash_backup call succeeded
BackupStarted ==
    LET f == hist["flash_backup"].first
    IN  Wrote(f, <<254, 1, CR>>) /\ Wrote(f + 1, <<138, 8, CR>>)
        /\ InRange("flash_backup", f + 1)

\* (b) frame j is a GLOB_CMD poll of that call, begun before the bound, whose
\* low byte has bit3 clear
BackupPollClear(j) ==
    /\ InRange("flash_backup", j)
    /\ ReadOk(j, 10, 1)
    /\ trace[j].at - hist["flash_backup"].start < FLASH_BACKUP_TIMEOUT
    /\ ~BitSet(RespLow(j), 3)

\* (c) the DIAG_STAT1 read that follows poll j shows bit0 clear
BackupVerifyClear(j) ==
    /\ InRange("flash_backup", j + 2)
    /\ ReadOk(j + 2, 4, 0)
    /\ ~BitSet(RespLow(j + 2), 0)

\* C2: flash_backup returns true if and only if its start write succeeded, a
\* GLOB_CMD poll begun within 5.0 s returned bit3 = 0 and the DIAG_STAT1 read
\* that follows returned four bytes with bit0 = 0.
C2_FlashBackupResult ==
    Returned("flash_backup") =>
        (hist["flash_backup"].ret = "true"
            <=> (BackupStarted
                 /\ \E j \in Range("flash_backup") :
                        BackupPollClear(j) /\ BackupVerifyClear(j)))

\* flash_backup has returned true after at least one busy poll
C2_Witness ==
    /\ Returned("flash_backup")
    /\ hist["flash_backup"].ret = "true"
    /\ \E j \in Range("flash_backup") : ReadOk(j, 10, 1) /\ BitSet(RespLow(j), 3)

\* the GLOB_CMD polls of the last flash_backup call
BackupPolls == {j \in Range("flash_backup") : Wrote(j, <<10, 0, CR>>)}

\* C3: in flash_backup no poll read is started once 5.0 s have elapsed since
\* polling started, and a call in which no transport call failed and every
\* poll answered with bit3 set returns false, not before the 5.0 s have
\* elapsed, without the DIAG_STAT1 read.
C3_FlashBackupTimeout ==
    LET polls == BackupPolls
    IN  /\ \A j \in polls :
            trace[j].at - hist["flash_backup"].start < FLASH_BACKUP_TIMEOUT
        /\ (Returned("flash_backup") /\ hist["flash_backup"].caught = 0
            /\ \A j \in polls : ReadOk(j, 10, 1) /\ BitSet(RespLow(j), 3))
            => /\ hist["flash_backup"].ret = "false"
               /\ hist["flash_backup"].ended - hist["flash_backup"].start
                    >= FLASH_BACKUP_TIMEOUT
               /\ ~\E i \in Range("flash_backup") : Wrote(i, <<4, 0, CR>>)

\* flash_backup has returned after polls that all showed bit3 set
C3_Witness ==
    LET polls == BackupPolls
    IN  /\ Returned("flash_backup") /\ hist["flash_backup"].caught = 0
        /\ polls # {}
        /\ \A j \in polls : ReadOk(j, 10, 1) /\ BitSet(RespLow(j), 3)

\* C4: once full_reset has written the reset spells it returns exactly what
\* software_reset returns, whatever flash_test returned.
C4_FullResetIgnoresFlashTest ==
    (Returned("full_reset") /\ hist["flash_test"].calls > 0)
        => /\ Returned("flash_test")
           /\ Returned("software_reset")
           /\ hist["full_reset"].ret = hist["software_reset"].ret

\* full_reset has returned true although flash_test returned false
C4_Witness ==
    /\ Returned("full_reset")
    /\ hist["flash_test"].ret = "false"
    /\ hist["software_reset"].ret = "true"
    /\ hist["full_reset"].ret = "true"

\* C5: the trace of full_reset(persist_disable_auto=False) holds no mode-exit
\* write, no UART_CTRL clear and no flash-backup start; it is the window-0
\* select, the three reset spells, then the frames of flash_test (from its
\* window-1 select and start write) and then those of software_reset.
C5_FullResetNoPersist ==
    (hist["full_reset"].calls > 0 /\ hist["full_reset"].arg = "false")
        => /\ Written(<<131, 2, CR>>) = {}
           /\ Written(<<136, 0, CR>>) = {}
           /\ Written(<<138, 8, CR>>) = {}
           /\ hist["exit_auto_mode"].calls = 0
           /\ \A i \in Frames :
                IF i = 1 THEN Wrote(i, <<254, 0, CR>>)
                ELSE IF i <= 4 THEN Wrote(i, <<255, 255, CR>>)
                ELSE IF InRange("flash_test", i)
                    THEN /\ hist["flash_test"].first = 5
                         /\ (i = 5 => Wrote(i, <<254, 1, CR>>))
                         /\ (i = 6 => Wrote(i, <<131, 8, CR>>))
                ELSE /\ Returned("flash_test")
                     /\ InRange("software_reset", i)
                     /\ hist["software_reset"].first = hist["flash_test"].last + 1
                     /\ (i = hist["software_reset"].first => Wrote(i, <<254, 1, CR>>))
                     /\ (i = hist["software_reset"].first + 1
                            => Wrote(i, <<138, 128, CR>>))

\* full_reset(False) has returned after software_reset wrote its reset command
C5_Witness ==
    /\ Returned("full_reset") /\ hist["full_reset"].arg = "false"
    /\ Written(<<138, 128, CR>>) # {}

\* C6: configure returns true if and only if set_uart_auto_start and then
\* flash_backup returned true; flash_backup is not run (no 0x8A <- 0x08) when
\* set_uart_auto_start fails, and 0x88 <- 0x03 precedes 0x8A <- 0x08.
C6_ConfigureShortCircuit ==
    hist["configure"].calls > 0
        => /\ Returned("configure")
                => (hist["configure"].ret = "true"
                        <=> (hist["set_uart_auto_start"].ret = "true"
                             /\ hist["flash_backup"].calls = 1
                             /\ hist["flash_backup"].ret = "true"))
           /\ hist["set_uart_auto_start"].ret # "true"
                => (hist["flash_backup"].calls = 0 /\ Written(<<138, 8, CR>>) = {})
           /\ \A i \in Written(<<138, 8, CR>>) :
                \E j \in Written(<<136, 3, CR>>) : j < i

\* configure has returned false because flash_backup failed after 0x88 <- 0x03
C6_Witness ==
    /\ Returned("configure") /\ hist["configure"].ret = "false"
    /\ hist["set_uart_auto_start"].ret = "true"
    /\ Returned("flash_backup")
    /\ Written(<<138, 8, CR>>) # {}

----------------------------------------------------------------------------
(* Claims about the transport, read off the call made last *)

\* the frames the last call wrote
CallFrames == (call.len0 + 1)..Len(trace)

\* the expected response length of the one command or read of the last call
CallLength == call.cmds[1][1]

IsPrefix(a, b) == Len(a) <= Len(b) /\ Take(b, Len(a)) = a

RECURSIVE Responses(_, _)
Responses(from, to) ==
    IF from > to THEN <<>> ELSE trace[from].resp \o Responses(from + 1, to)

RECURSIVE GotBefore(_, _)
GotBefore(log, i) == IF i <= 1 THEN 0 ELSE log[i - 1].got + GotBefore(log, i - 1)

\* C7: send_commands writes the payloads of its commands in list order; when
\* a command fails the error reaches the caller, nothing is returned and no
\* later command is written; when none fails the result is the concatenation
\* of the responses in order.
C7_SendCommandsAbort ==
    call.op = "send_commands"
        => LET m == Len(trace) - call.len0
           IN  /\ m <= Len(call.cmds)
               /\ \A k \in 1..m :
                    /\ trace[call.len0 + k].cmd = call.cmds[k]
                    /\ trace[call.len0 + k].wrote = Payload(call.cmds[k])
                    /\ k < m => trace[call.len0 + k].status = "none"
               /\ call.exc = "none"
                    => /\ m = Len(call.cmds)
                       /\ m > 0 => trace[Len(trace)].status = "none"
                       /\ call.result = Responses(call.len0 + 1, Len(trace))
               /\ call.exc = "TimeoutError"
                    => m > 0 /\ trace[Len(trace)].status = "TimeoutError"
               /\ call.exc \in {"RuntimeError", "SerialException"}
                    => /\ m < Len(call.cmds)
                       /\ m > 0 => trace[Len(trace)].status = "none"
               /\ call.exc # "none" => call.result = <<>>

\* send_commands of two commands was aborted by the timeout of the first
C7_Witness ==
    /\ call.op = "send_commands" /\ Len(call.cmds) = 2
    /\ call.exc = "TimeoutError"
    /\ Len(trace) = call.len0 + 1

\* C8: reading n > 0 bytes, however the stream splits them, returns exactly
\* the first n bytes delivered or raises TimeoutError at the first stream read
\* that returns nothing, and no stream read asks for more than is missing.
C8_ReadExactly ==
    (/\ call.op \in {"send_command", "read_bytes"}
     /\ is_open(call.conn0)
     /\ CallLength > 0
     /\ call.exc # "SerialException")
        => /\ call.exc \in {"none", "TimeoutError"}
           /\ \A i \in DOMAIN call.log :
                /\ call.log[i].asked > 0
                /\ call.log[i].asked <= CallLength - GotBefore(call.log, i)
                /\ call.log[i].got <= call.log[i].asked
                /\ i < Len(call.log) => call.log[i].got > 0
           /\ call.exc = "none"
                => /\ Len(call.result) = CallLength
                   /\ call.result = Take(call.delivered, CallLength)
                   /\ \A i \in DOMAIN call.log : call.log[i].got > 0
           /\ call.exc = "TimeoutError"
                => /\ call.log # <<>>
                   /\ call.log[Len(call.log)].got = 0
                   /\ call.result = <<>>

\* a response of two bytes was returned from two stream reads of one byte
C8_Witness ==
    /\ call.op = "send_command" /\ CallLength = 2
    /\ call.exc = "none"
    /\ Len(call.log) = 2
    /\ Len(call.result) = 2

\* C9: a command that expects no response writes exactly its payload, makes
\* no stream read and returns the empty sequence: it cannot time out and
\* leaves the bytes pending in the receive stream where they are.
C9_PureWrite ==
    /\ \A i \in Frames :
        trace[i].cmd[1] = 0
            => /\ trace[i].wrote = Payload(trace[i].cmd)
               /\ trace[i].resp = <<>>
               /\ trace[i].status = "none"
    /\ (/\ call.op = "send_command"
        /\ is_open(call.conn0)
        /\ CallLength = 0)
        => /\ call.exc \in {"none", "SerialException"}
           /\ call.log = <<>>
           /\ call.result = <<>>
           /\ IsPrefix(call.rx0, rx)
           /\ call.exc = "none"
                => /\ Len(trace) = call.len0 + 1
                   /\ trace[Len(trace)].wrote = Tail(call.cmds[1])

\* a pure write was made while bytes were pending in the receive stream
C9_Witness ==
    /\ call.op = "send_command" /\ CallLength = 0
    /\ call.exc = "none"
    /\ call.rx0 # <<>>
    /\ Len(trace) = call.len0 + 1

\* C10: close leaves the transport not open and raises nothing, and changes
\* nothing when the transport was never opened or is already closed;
\* send_command, send_commands and read_bytes on a transport that is not
\* open raise an error and write nothing.
C10_CloseIdempotent ==
    /\ call.op = "close"
        => /\ ~is_open(connection)
           /\ call.exc = "none"
           /\ Len(trace) = call.len0 /\ rx = call.rx0
           /\ call.conn0 = "None" => connection = call.conn0
    /\ (/\ call.op \in {"send_command", "send_commands", "read_bytes"}
        /\ ~is_open(call.conn0))
        => /\ call.exc = "RuntimeError"
           /\ Len(trace) = call.len0 /\ rx = call.rx0

\* close was called on a transport that had been used and closed before
C10_Witness ==
    /\ call.op = "close" /\ call.conn0 = "None"
    /\ Len(trace) > 0

----------------------------------------------------------------------------
(* Claims about the sessions *)

\* C11: every session entry point leaves the transport closed when it
\* returns, whether the operation succeeded, returned false or none, or
\* raised, and whether open succeeded or raised.
C11_SessionCloses ==
    \A entry \in EntryPoints :
        Returned(entry) => connection = "None" /\ ~is_open(connection)

\* detect_sensor_identity has returned false because detect_identity raised
\* on a transport that had been opened and written to
C11_Witness ==
    /\ Returned("detect_sensor_identity")
    /\ hist["detect_sensor_identity"].ret = "false"
    /\ hist["detect_identity"].ret = "raised"
    /\ trace # <<>>
    /\ ~is_open(connection)

----------------------------------------------------------------------------
(* Claims about the reading of registers and of the identity *)

\* the frames of the last call of fn, as the sequence of their positions
FramesOf(fn) == [k \in 1..(hist[fn].last - hist[fn].first + 1) |-> hist[fn].first + k - 1]

\* C12: _read_word(address, window) writes the window select and then the
\* read frame expecting 4 bytes; it returns (MSB << 8) | LSB of the 4-byte
\* response [addr, MSB, LSB, 0x0D], and None, without raising, when the
\* response is short or the transport fails.
C12_ReadWord ==
    (Returned("read_word") /\ ~Returned("detect_identity"))
        => LET h == hist["read_word"]
               f == FramesOf("read_word")
               got == /\ Len(f) = 2
                      /\ trace[f[2]].status = "none"
                      /\ Len(trace[f[2]].resp) = 4
           IN  /\ Len(f) <= 2
               /\ Len(f) >= 1
                    => trace[f[1]].cmd = <<0, 254, h.arg.window % 256, 13>>
                       /\ trace[f[1]].wrote = <<254, h.arg.window % 256, 13>>
               /\ Len(f) = 2
                    => trace[f[2]].cmd = <<4, h.arg.address % 256, 0, 13>>
                       /\ trace[f[2]].wrote = <<h.arg.address % 256, 0, 13>>
               /\ h.ret \in {"word", "None"}
               /\ h.ret = "word" <=> got
               /\ h.ret = "word"
                    => retval.word = trace[f[2]].resp[2] * 256 + trace[f[2]].resp[3]
               /\ h.ret = "None" => retval = NoValue

\* _read_word has returned a word with both bytes set, read from a register
\* whose address was given wider than a byte
C12_Witness ==
    /\ Returned("read_word") /\ ~Returned("detect_identity")
    /\ hist["read_word"].ret = "word"
    /\ hist["read_word"].arg.address > 255
    /\ retval.word > 255 /\ retval.word % 256 # 0
    /\ retval.word % 256 # retval.word \div 256

\* the frames _read_word has written, and whether the read at position i
\* of the trace has obtained its 4-byte response
WordFrames == {i \in Frames : trace[i].by = "read_word"}
WordRead(i) == trace[i].status = "none" /\ Len(trace[i].resp) = 4
WordAt(i) == trace[i].resp[2] * 256 + trace[i].resp[3]

\* C13: detect_identity reads the registers 0x6A, 0x6C, 0x6E, 0x70, 0x74,
\* 0x76, 0x78, 0x7A in this order, each after a window-1 select; the first
\* read that fails ends it with None and no further read is issued; a record
\* is returned only when all eight reads succeeded, and holds the four
\* product words and the four serial words.
C13_DetectIdentityAtomic ==
    hist["detect_identity"].calls > 0
        => LET n == Cardinality(WordFrames)
               regs == <<106, 108, 110, 112, 116, 118, 120, 122>>
               reads == {i \in 1..n : i % 2 = 0 /\ WordRead(i)}
               h == hist["detect_identity"]
           IN  /\ n <= 16
               /\ WordFrames = 1..n
               /\ \A i \in 1..n :
                    IF i % 2 = 1
                        THEN trace[i].cmd = <<0, 254, 1, 13>>
                        ELSE /\ trace[i].cmd = <<4, regs[i \div 2], 0, 13>>
                             /\ i < n => WordRead(i)
               /\ Returned("detect_identity")
                    => /\ h.ret \in {"None", "identity", "raised"}
                       /\ h.ret = "None" <=> Cardinality(reads) < 8
                       /\ h.ret = "identity"
                            => /\ Len(retval.product_words) = 4
                               /\ Len(retval.serial_words) = 4
                               /\ \A k \in 1..4 :
                                    /\ retval.product_words[k] = WordAt(2 * k)
                                    /\ retval.serial_words[k] = WordAt(2 * k + 8)

\* detect_identity has returned None at a serial register it could not read,
\* after the four product words had been read
C13_Witness ==
    /\ Returned("detect_identity")
    /\ hist["detect_identity"].ret = "None"
    /\ Cardinality(WordFrames) \in 10..16
    /\ \A k \in 1..4 : WordRead(2 * k)

\* the bytes of the words in order, each word's low byte before its high
\* byte, without the bytes 0x00
TextBytes(words) ==
    SelectSeq([k \in 1..(2 * Len(words)) |->
                    IF k % 2 = 1 THEN words[(k + 1) \div 2] % 256
                    ELSE (words[k \div 2] \div 256) % 256],
              LAMBDA b : b # 0)

\* text is chars without the white space at its two ends
Trimmed(text, chars) ==
    /\ text # <<>> => text[1] \notin Whitespace /\ text[Len(text)] \notin Whitespace
    /\ \E i \in 1..(Len(chars) + 1) :
        /\ i + Len(text) - 1 <= Len(chars)
        /\ text = SubSeq(chars, i, i + Len(text) - 1)
        /\ \A k \in 1..Len(chars) :
            (k < i \/ k > i + Len(text) - 1) => chars[k] \in Whitespace

\* C14: the identity is decoded from the words low byte first, without the
\* bytes 0x00, in word order and trimmed of white space at both ends;
\* product_id_raw is the decoding of the product words, product_id its alias
\* when it has one and product_id_raw itself otherwise, so that the words of
\* "A342VD10" and "12345678" give "M-A542VR1", "A342VD10" and "12345678".
C14_IdentityDecoding ==
    (Returned("detect_identity") /\ hist["detect_identity"].ret = "identity")
        => /\ Trimmed(retval.product_id_raw, TextBytes(retval.product_words))
           /\ Trimmed(retval.serial_number, TextBytes(retval.serial_words))
           /\ retval.product_id =
                IF retval.product_id_raw = <<65, 51, 52, 50, 86, 68, 49, 48>>
                    THEN <<77, 45, 65, 53, 52, 50, 86, 82, 49>>
                    ELSE retval.product_id_raw
           /\ (/\ retval.product_words = <<13121, 12852, 17494, 12337>>
               /\ retval.serial_words = <<12849, 13363, 13877, 14391>>)
                => /\ retval.product_id = <<77, 45, 65, 53, 52, 50, 86, 82, 49>>
                   /\ retval.product_id_raw = <<65, 51, 52, 50, 86, 68, 49, 48>>
                   /\ retval.serial_number = <<49, 50, 51, 52, 53, 54, 55, 56>>

\* an identity whose words hold null bytes and white space has been decoded
\* to the texts "MA B" and "9 8"
C14_Witness ==
    /\ Returned("detect_identity") /\ hist["detect_identity"].ret = "identity"
    /\ retval.product_id_raw = <<77, 65, 32, 66>>
    /\ retval.product_id = <<77, 65, 32, 66>>
    /\ retval.serial_number = <<57, 32, 56>>

----------------------------------------------------------------------------
(* Claims about the flash test, the ready wait and the software reset *)

\* frame j is an MSC_CTRL poll of the last flash_test, begun within the bound,
\* that shows bit 0x0400 clear
TestPollClear(j) ==
    /\ InRange("flash_test", j)
    /\ ReadOk(j, 2, 1)
    /\ trace[j].at - hist["flash_test"].start < FLASH_BACKUP_TIMEOUT
    /\ ~BitSet(RespWord(j), 10)

\* the DIAG_STAT1 read that follows poll j was obtained and shows bit2 clear
TestDiagClear(j) ==
    /\ InRange("flash_test", j + 2)
    /\ ReadOk(j + 2, 4, 0)
    /\ ~BitSet(RespLow(j + 2), 2)

\* _wait_until_ready was called by the last flash_test
WaitInFlashTest ==
    /\ hist["wait_until_ready"].calls > 0
    /\ hist["flash_test"].first < hist["wait_until_ready"].first
    /\ hist["wait_until_ready"].first <= hist["flash_test"].last + 1

\* C15: flash_test returns true only if, after its start write 0x83 <- 0x08
\* under window 1, an MSC_CTRL poll begun within 5.0 s showed bit 0x0400 clear
\* and the DIAG_STAT1 read that follows was obtained with bit2 clear; when it
\* returns false, _wait_until_ready has not been called.
C15_FlashTestResult ==
    Returned("flash_test")
        => LET f == hist["flash_test"].first
           IN  /\ hist["flash_test"].ret \in {"true", "false"}
               /\ hist["flash_test"].ret = "true"
                    => /\ Wrote(f, <<254, 1, 13>>) /\ Wrote(f + 1, <<131, 8, 13>>)
                       /\ \E j \in Range("flash_test") :
                            /\ j > f + 1
                            /\ TestPollClear(j) /\ TestDiagClear(j)
                            /\ \A i \in (f + 2)..(j - 2) : ~TestPollClear(i)
               /\ hist["flash_test"].ret = "false" => ~WaitInFlashTest

\* flash_test has returned false on FLASH_ERR after a poll that showed the
\* test complete, without waiting for the sensor
C15_Witness ==
    /\ Returned("flash_test") /\ hist["flash_test"].ret = "false"
    /\ \E j \in Range("flash_test") :
        /\ TestPollClear(j)
        /\ ReadOk(j + 2, 4, 0) /\ BitSet(RespLow(j + 2), 2)
        /\ hist["flash_test"].last = j + 2
    /\ hist["wait_until_ready"].calls = 0

\* frame i is a GLOB_CMD read under window 1 that shows bit 0x0400 clear
ReadyAt(i) == ReadOk(i, 10, 1) /\ ~BitSet(RespWord(i), 10)

\* C16: _wait_until_ready(t) lets no transport error end the wait or reach
\* its caller; it returns true only right after a GLOB_CMD read under window 1
\* with bit 0x0400 clear, false only once t has elapsed, and starts no poll
\* after t has elapsed.
C16_WaitUntilReady ==
    hist["wait_until_ready"].calls > 0
        => LET h == hist["wait_until_ready"]
           IN  /\ \A i \in Range("wait_until_ready") :
                    /\ trace[i].by = "wait_until_ready"
                    /\ trace[i].at - h.start < h.arg
                    /\ ReadyAt(i) => h.ret = "true" /\ i = h.last
               /\ Returned("wait_until_ready")
                    => /\ h.ret \in {"true", "false"}
                       /\ h.ret = "true"
                            => h.last \in Range("wait_until_ready") /\ ReadyAt(h.last)
                       /\ h.ret = "false" => h.ended - h.start >= h.arg

\* _wait_until_ready has returned true after a poll that raised
C16_Witness ==
    /\ Returned("wait_until_ready")
    /\ hist["wait_until_ready"].ret = "true"
    /\ hist["wait_until_ready"].caught > 0
    /\ \E i \in Range("wait_until_ready") : trace[i].status = "TimeoutError"

\* C17: software_reset writes the window-1 select and 0x8A <- 0x80 and returns
\* what _wait_until_ready(7.0) returns: true when the sensor, after reads
\* that timed out, answers a GLOB_CMD read with bit 0x0400 clear before 7.0 s
\* have elapsed; when the reset write fails it returns false without polling.
C17_SoftwareReset ==
    hist["software_reset"].calls > 0
        => LET hs == hist["software_reset"]
               hw == hist["wait_until_ready"]
               f == hs.first
               written == InRange("software_reset", f + 1)
           IN  /\ InRange("software_reset", f) => trace[f].cmd = <<0, 254, 1, 13>>
               /\ written => trace[f + 1].cmd = <<0, 138, 128, 13>>
               /\ \A i \in Range("software_reset") :
                    /\ i > f + 1 => trace[i].by = "wait_until_ready"
                    /\ ReadyAt(i) /\ i > f + 1 => hs.ret \in {"none", "true"}
               /\ Returned("software_reset")
                    => IF written
                        THEN /\ hw.calls > 0 /\ hw.first = f + 2
                             /\ hw.arg = 140 /\ hw.start = trace[f + 1].at
                             /\ Returned("wait_until_ready")
                             /\ hs.ret = hw.ret
                             /\ hs.last = hw.last /\ hs.ended = hw.ended
                        ELSE /\ hs.ret = "false"
                             /\ hs.caught = 1
                             /\ \A i \in Range("software_reset") :
                                    trace[i].by = "software_reset"

\* software_reset has returned true although reads timed out after the reset
\* write, the sensor having answered ready before 7.0 s had elapsed
C17_Witness ==
    /\ Returned("software_reset") /\ hist["software_reset"].ret = "true"
    /\ \E i \in Range("software_reset") :
        /\ trace[i].status = "TimeoutError"
        /\ i < hist["software_reset"].last
    /\ ReadyAt(hist["software_reset"].last)
    /\ hist["software_reset"].ended - hist["software_reset"].start < 140

----------------------------------------------------------------------------
(* Claims about the frames of the engine *)

\* C18: the frames of set_uart_auto_start are, in order and each at most
\* once, three reset spells, the window-1 select and 0x88 <- 0x03, all pure
\* writes; it returns true exactly when all five were written and false
\* otherwise.
C18_SetUartAutoStartTrace ==
    hist["set_uart_auto_start"].calls > 0
        => LET h == hist["set_uart_auto_start"]
               expected == << <<0, 255, 255, 13>>, <<0, 255, 255, 13>>,
                              <<0, 255, 255, 13>>, <<0, 254, 1, 13>>,
                              <<0, 136, 3, 13>> >>
               f == FramesOf("set_uart_auto_start")
               n == IF h.ret = "none" THEN Len(trace) - h.first + 1 ELSE Len(f)
           IN  /\ n <= 5
               /\ \A k \in 1..n :
                    LET e == trace[h.first + k - 1]
                    IN  /\ e.cmd = expected[k]
                        /\ e.wrote = Tail(expected[k])
                        /\ e.resp = <<>> /\ e.status = "none"
                        /\ e.by = "set_uart_auto_start"
               /\ Returned("set_uart_auto_start")
                    => /\ h.ret \in {"true", "false"}
                       /\ h.ret = "true" <=> n = 5
                       /\ h.ret = "true" <=> h.caught = 0

\* set_uart_auto_start has returned false after the spells were written,
\* because a write of its second step raised
C18_Witness ==
    /\ Returned("set_uart_auto_start")
    /\ hist["set_uart_auto_start"].ret = "false"
    /\ hist["set_uart_auto_start"].last - hist["set_uart_auto_start"].first + 1 \in {3, 4}
    /\ is_open(connection)

\* the frames that address a register: neither a window select nor a spell
RegisterFrames == {i \in Frames : trace[i].wrote[1] \notin {254, 255}}

\* the window the operation that wrote frame i intends for its register
IntendedWindow(i) ==
    LET addr == trace[i].wrote[1]
    IN  IF addr \in {136, 138, 10, 106, 108, 110, 112, 116, 118, 120, 122} THEN {1}
        ELSE IF addr = 4 THEN {0}
        ELSE IF addr \in {131, 2} /\ trace[i].by = "exit_auto_mode" THEN {0}
        ELSE IF addr \in {131, 2} /\ trace[i].by = "flash_test" THEN {1}
        ELSE {}

\* the run is one of an operation of the engine, not of _read_word alone
EngineRun == hist["read_word"].calls > 0 => hist["detect_identity"].calls > 0

\* C19: every frame that addresses a register comes right after a window
\* select written by the same operation, and the window selected is the one
\* the operation intends: 1 for 0x88, 0x8A, 0x0A and the identity registers,
\* 0 for 0x04 and for 0x83 / 0x02 in exit_auto_mode, 1 for 0x83 / 0x02 in
\* flash_test.
C19_WindowReselected ==
    EngineRun
        => \A i \in RegisterFrames :
            /\ i > 1
            /\ trace[i - 1].by = trace[i].by
            /\ \E w \in IntendedWindow(i) : trace[i - 1].wrote = <<254, w, 13>>

\* 0x83 has been written under window 0 by exit_auto_mode and under window 1
\* by flash_test in one run
C19_Witness ==
    /\ \E i \in RegisterFrames :
        /\ trace[i].wrote[1] = 131 /\ trace[i].by = "exit_auto_mode"
        /\ trace[i - 1].wrote = <<254, 0, 13>>
    /\ \E i \in RegisterFrames :
        /\ trace[i].wrote[1] = 131 /\ trace[i].by = "flash_test"
        /\ trace[i - 1].wrote = <<254, 1, 13>>
    /\ \E i \in RegisterFrames : trace[i].wrote[1] = 4

\* C20: every command handed to the transport has a payload of 3 bytes ending
\* in 0x0D and expects 0 bytes (writes, window selects, reset spells) or 4
\* bytes (register reads, whose second payload byte is 0x00).
C20_Framing ==
    \A i \in Frames :
        LET cmd == trace[i].cmd
        IN  /\ Len(cmd) = 4
            /\ trace[i].wrote = <<cmd[2], cmd[3], cmd[4]>>
            /\ cmd[4] = 13
            /\ cmd[1] \in {0, 4}
            /\ cmd[1] = 4 <=> cmd[2] < 128
            /\ cmd[1] = 4 => cmd[3] = 0

\* a run has written reset spells, window selects, register writes and
\* register reads
C20_Witness ==
    /\ \E i \in Frames : trace[i].cmd = <<0, 255, 255, 13>>
    /\ \E i \in Frames : trace[i].cmd = <<0, 254, 1, 13>>
    /\ \E i \in Frames : trace[i].cmd = <<0, 138, 128, 13>>
    /\ \E i \in Frames : trace[i].cmd[1] = 4 /\ Len(trace[i].resp) = 4

----------------------------------------------------------------------------
(* Claims about the sequences of full_reset and exit_auto_mode *)

\* the frames 0x8A <- 0x80 written under a window-1 select
ResetWrites == {i \in Frames : i > 1 /\ Wrote(i, <<138, 128, 13>>)}

\* the three reset spells have been written in a row before frame i
SpellsBefore(i) ==
    \E k \in 1..(i - 3) : \A d \in 0..2 : Wrote(k + d, <<255, 255, 13>>)

\* the flash-test start 0x83 <- 0x08 was written under window 1 before frame i
TestStartBefore(i) ==
    \E k \in 2..(i - 1) : Wrote(k - 1, <<254, 1, 13>>) /\ Wrote(k, <<131, 8, 13>>)

\* a flash backup started after the UART_CTRL clear 0x88 <- 0x00 has returned
\* true, its DIAG_STAT1 read showing bit0 clear, before frame i
BackupVerifiedBefore(i) ==
    /\ Returned("flash_backup") /\ hist["flash_backup"].ret = "true"
    /\ hist["flash_backup"].last < i
    /\ ReadOk(hist["flash_backup"].last, 4, 0)
    /\ ~BitSet(RespLow(hist["flash_backup"].last), 0)
    /\ \E k \in 2..(hist["flash_backup"].first - 1) :
        Wrote(k - 1, <<254, 1, 13>>) /\ Wrote(k, <<136, 0, 13>>)

\* the last flash_test returned before frame i, after the frame k; its start
\* write is in the trace unless the transport failed on it, in which case
\* flash_test returned false having written at most its window select
TestRunBefore(k, i) ==
    LET ft == hist["flash_test"]
    IN  /\ Returned("flash_test") /\ ft.first > k /\ ft.last < i
        /\ \/ /\ ft.first + 1 <= ft.last
              /\ Wrote(ft.first, <<254, 1, 13>>) /\ Wrote(ft.first + 1, <<131, 8, 13>>)
           \/ /\ ft.last <= ft.first
              /\ ft.ret = "false" /\ ft.caught = 1
              /\ ft.last = ft.first => Wrote(ft.first, <<254, 1, 13>>)

\* the fail-fast part of C21: a false exit_auto_mode(true) ends full_reset(true)
\* with false before any reset spell, flash-test start or software-reset write
FullResetFailsFast ==
    (hist["full_reset"].arg = "true" /\ hist["exit_auto_mode"].ret = "false")
        => /\ hist["full_reset"].ret \in {"none", "false"}
           /\ stack = <<>> => hist["full_reset"].ret = "false"
           /\ Written(<<255, 255, 13>>) = {}
           /\ Written(<<131, 8, 13>>) = {}
           /\ Written(<<138, 128, 13>>) = {}

\* with persist = true the software-reset write i comes after a verified
\* flash backup of the cleared UART_CTRL
PersistedBefore(i) ==
    hist["full_reset"].arg = "true"
        => hist["exit_auto_mode"].ret = "true" /\ BackupVerifiedBefore(i)

\* C21 as claimed: when exit_auto_mode(true) returns false to
\* full_reset(true), full_reset returns false and writes no reset spell, no
\* flash-test start and no software-reset write; in every trace the
\* software-reset write comes after the three reset spells and the flash-test
\* start write, and with persist = true after a verified flash backup of the
\* cleared UART_CTRL.
C21_Original ==
    hist["full_reset"].calls > 0
        => /\ FullResetFailsFast
           /\ \A i \in ResetWrites :
                /\ SpellsBefore(i)
                /\ TestStartBefore(i)
                /\ PersistedBefore(i)

\* C21, amended: when exit_auto_mode(true) returns false to full_reset(true),
\* full_reset returns false and writes no reset spell, no flash-test start
\* and no software-reset write; the software-reset write comes after the
\* three reset spells and after flash_test has returned, whose start write
\* precedes it unless the transport failed on that write; with persist = true
\* it also comes after a verified flash backup of the cleared UART_CTRL.
C21_FullResetOrdering ==
    hist["full_reset"].calls > 0
        => /\ FullResetFailsFast
           /\ Written(<<138, 128, 13>>) \subseteq ResetWrites
           /\ \A i \in ResetWrites :
                /\ \E k \in 1..(i - 3) :
                    /\ \A d \in 0..2 : Wrote(k + d, <<255, 255, 13>>)
                    /\ TestRunBefore(k + 2, i)
                /\ hist["flash_test"].caught = 0 => TestStartBefore(i)
                /\ PersistedBefore(i)

\* full_reset(true) has written the software-reset command after a verified
\* flash backup although the start write of flash_test had failed
C21_Witness ==
    /\ hist["full_reset"].calls > 0 /\ hist["full_reset"].arg = "true"
    /\ ResetWrites # {}
    /\ hist["flash_backup"].ret = "true"
    /\ hist["flash_test"].ret = "false"
    /\ Written(<<131, 8, 13>>) = {}
    /\ Returned("full_reset")

\* C22: exit_auto_mode(true) returns true only if flash_backup, called after
\* the UART_CTRL clear write, returned true, and returns false when
\* flash_backup returned false; exit_auto_mode(false) never writes the
\* flash-backup start 0x8A <- 0x08; whenever exit_auto_mode returns true the
\* last frame it wrote is the window-0 select.
C22_ExitAutoModePersistence ==
    hist["exit_auto_mode"].calls > 0
        => LET h == hist["exit_auto_mode"]
               fb == hist["flash_backup"]
           IN  /\ (h.arg = "true" /\ h.ret = "true")
                    => /\ fb.calls = 1 /\ fb.ret = "true"
                       /\ fb.first > h.first /\ fb.last < h.last
                       /\ Wrote(fb.first - 2, <<254, 1, 13>>)
                       /\ Wrote(fb.first - 1, <<136, 0, 13>>)
                       /\ InRange("exit_auto_mode", fb.first - 2)
               /\ (h.arg = "true" /\ fb.ret = "false")
                    => /\ h.ret \in {"none", "false"}
                       /\ h.ret = "none" => At("exit_auto_mode", "after_backup")
               /\ h.arg = "false"
                    => fb.calls = 0 /\ Written(<<138, 8, 13>>) = {}
               /\ h.ret = "true"
                    => /\ h.last >= h.first
                       /\ trace[h.last].cmd = <<0, 254, 0, 13>>
                       /\ trace[h.last].wrote = <<254, 0, 13>>
                       /\ trace[h.last].by = "exit_auto_mode"

\* exit_auto_mode(true) has returned true after a flash backup that had to
\* poll more than once, and closed with the window-0 select
C22_Witness ==
    /\ Returned("exit_auto_mode")
    /\ hist["exit_auto_mode"].arg = "true" /\ hist["exit_auto_mode"].ret = "true"
    /\ hist["flash_backup"].ret = "true"
    /\ hist["flash_backup"].last - hist["flash_backup"].first >= 7
    /\ trace[hist["exit_auto_mode"].last].wrote = <<254, 0, 13>>

\* the mode-exit write of the last exit_auto_mode call succeeded
ModeExitWritten ==
    LET f == hist["exit_auto_mode"].first
    IN  Wrote(f, <<254, 0, 13>>) /\ Wrote(f + 1, <<131, 2, 13>>)
        /\ InRange("exit_auto_mode", f + 1)

\* the DIAG_STAT1 reads of the last flash_backup call
BackupVerifies == {j \in Range("flash_backup") : Wrote(j, <<4, 0, 13>>)}

\* C23: a transport failure ends flash_backup and exit_auto_mode at once with
\* false: a poll read of flash_backup that times out is its last frame, with
\* no further poll and no DIAG_STAT1 read; when its start write fails no poll
\* is issued; when the mode-exit write of exit_auto_mode fails, no MODE_CTRL
\* read and no UART_CTRL write is issued.
C23_FailureAborts ==
    /\ hist["flash_backup"].calls > 0
        => LET h == hist["flash_backup"]
           IN  /\ \A i \in Range("flash_backup") :
                    trace[i].status # "none"
                        => /\ Returned("flash_backup") /\ h.ret = "false"
                           /\ i = h.last
                           /\ Wrote(i, <<10, 0, 13>>) => BackupVerifies = {}
               /\ h.caught > 0 => Returned("flash_backup") /\ h.ret = "false"
               /\ BackupPolls \cup BackupVerifies # {} => BackupStarted
               /\ (Returned("flash_backup") /\ ~BackupStarted)
                    => /\ h.ret = "false" /\ h.caught = 1
                       /\ h.last <= h.first
                       /\ BackupPolls = {}
    /\ hist["exit_auto_mode"].calls > 0
        => LET h == hist["exit_auto_mode"]
           IN  /\ \A i \in Range("exit_auto_mode") :
                    /\ (Wrote(i, <<2, 0, 13>>) \/ Wrote(i, <<136, 0, 13>>))
                        => ModeExitWritten /\ i > h.first + 1
                    /\ (trace[i].status # "none" /\ trace[i].by = "exit_auto_mode")
                        => /\ Returned("exit_auto_mode") /\ h.ret = "false"
                           /\ i = h.last
               /\ h.caught > 0 => Returned("exit_auto_mode") /\ h.ret = "false"
               /\ (Returned("exit_auto_mode") /\ ~ModeExitWritten)
                    => /\ h.ret = "false" /\ h.caught = 1
                       /\ h.last <= h.first

\* flash_backup has returned false at a poll read that timed out, after a
\* poll that had shown the backup still running
C23_Witness ==
    LET h == hist["flash_backup"]
    IN  /\ Returned("flash_backup") /\ h.ret = "false"
        /\ h.last >= h.first + 5
        /\ Wrote(h.last, <<10, 0, 13>>)
        /\ trace[h.last].status = "TimeoutError"
        /\ ReadOk(h.last - 2, 10, 1) /\ BitSet(RespLow(h.last - 2), 3)

----------------------------------------------------------------------------
(* Claims about retries, results and exceptions *)

\* how many frames of the last call of fn wrote payload
Count(fn, payload) == Cardinality({i \in Range(fn) : Wrote(i, payload)})

\* the action commands of each operation
ActionsOf(fn) ==
    IF fn = "flash_backup" THEN {<<138, 8, 13>>}
    ELSE IF fn = "flash_test" THEN {<<131, 8, 13>>}
    ELSE IF fn = "software_reset" THEN {<<138, 128, 13>>}
    ELSE IF fn = "exit_auto_mode" THEN {<<131, 2, 13>>, <<136, 0, 13>>}
    ELSE IF fn = "set_uart_auto_start" THEN {<<136, 3, 13>>}
    ELSE {}

\* no invocation writes one of its action commands twice
ActionsOnce ==
    \A j \in Frames :
        trace[j].wrote[1] \in {131, 136, 138}
            => \A fn \in Fns :
                (trace[j].wrote \in ActionsOf(fn) /\ InRange(fn, j))
                    => \A i \in hist[fn].first..(j - 1) : trace[i].wrote # trace[j].wrote

\* the frames the last call of fn wrote itself
Own(fn) == {i \in Range(fn) : trace[i].by = fn}

\* frame j was sent before by the same invocation of the function it is of
Repeated(j) ==
    LET fn == trace[j].by
    IN  /\ fn \in Fns /\ InRange(fn, j)
        /\ \E i \in hist[fn].first..(j - 1) :
            trace[i].by = fn /\ trace[i].wrote = trace[j].wrote

\* frame j is the status read of a polling loop
PollRead(j) ==
    \/ trace[j].by \in {"flash_backup", "wait_until_ready"} /\ Wrote(j, <<10, 0, 13>>)
    \/ trace[j].by = "flash_test" /\ Wrote(j, <<2, 0, 13>>)

\* frame j is the window-1 select of a pass of a polling loop: it is not the
\* select of a start write, and the status read follows it unless the
\* transport failed on that read
PollSelect(j) ==
    LET fn == trace[j].by
    IN  /\ fn \in {"flash_backup", "wait_until_ready", "flash_test"}
        /\ Wrote(j, <<254, 1, 13>>)
        /\ fn # "wait_until_ready" => j >= hist[fn].first + 2
        /\ (j + 1 \in Frames /\ trace[j + 1].by = fn /\ trace[j + 1].at = trace[j].at)
            => PollRead(j + 1)

\* C24 as claimed: no action command is written twice in one invocation, and
\* the only frames an operation sends more than once are the reset spell and
\* the window select and status read of a pass of a polling loop.
C24_Original ==
    /\ ActionsOnce
    /\ \A j \in Frames :
        \/ Wrote(j, <<255, 255, 13>>)
        \/ PollRead(j)
        \/ PollSelect(j)
        \/ ~Repeated(j)

\* C24, amended: no action command is written twice in one invocation, and
\* the only frames an operation sends more than once are the reset spell,
\* the window selects that precede its register accesses or close it, and
\* the status read of a polling loop.
C24_NoRetries ==
    /\ ActionsOnce
    /\ \A j \in Frames :
        \/ Wrote(j, <<255, 255, 13>>)
        \/ PollRead(j)
        \/ trace[j].wrote[1] = 254 /\ trace[j].cmd[1] = 0
        \/ ~Repeated(j)

\* exit_auto_mode has written every one of its commands, the window-0 select
\* three times and each action command once
C24_Witness ==
    /\ Returned("exit_auto_mode") /\ hist["exit_auto_mode"].ret = "true"
    /\ Cardinality({i \in Own("exit_auto_mode") : Wrote(i, <<254, 0, 13>>)}) = 3
    /\ Count("exit_auto_mode", <<131, 2, 13>>) = 1
    /\ Count("exit_auto_mode", <<136, 0, 13>>) = 1
    /\ Count("flash_backup", <<138, 8, 13>>) = 1
    /\ Cardinality({j \in Own("flash_backup") : Repeated(j)}) >= 4

\* the operations of the engine that return a boolean
BooleanOperations ==
    {"set_uart_auto_start", "flash_backup", "flash_test", "software_reset",
     "exit_auto_mode", "full_reset", "configure"}

\* C25: every boolean operation returns true or false whatever the transport
\* does: a read that times out, a write that fails or a transport that is
\* not open makes the operation that made the call catch the exception and
\* return false; nothing else than true or false reaches a caller, and an
\* operation that was called has returned when the run is over.
C25_BooleanResults ==
    /\ \A fn \in BooleanOperations :
        hist[fn].calls > 0
            => /\ hist[fn].ret \in {"none", "true", "false"}
               /\ stack = <<>> => hist[fn].ret \in {"true", "false"}
               /\ hist[fn].caught > 0
                    => hist[fn].caught = 1 /\ hist[fn].ret = "false"
               /\ ~is_open(connection)
                    => trace = <<>> /\ hist[fn].ret \in {"none", "false"}
    /\ \A i \in Frames :
        (trace[i].status # "none" /\ trace[i].by \in BooleanOperations)
            => /\ hist[trace[i].by].ret = "false"
               /\ hist[trace[i].by].last = i
    /\ (stack # <<>> /\ Top.fn \in BooleanOperations /\ Top.pc # "start")
        => ret \in {"none", "true", "false"}
    /\ hist["configure"].caught = 0

\* configure has returned false on a transport that is not open, the
\* exception having been caught by set_uart_auto_start
C25_Witness ==
    /\ ~is_open(connection)
    /\ Returned("configure") /\ hist["configure"].ret = "false"
    /\ hist["set_uart_auto_start"].ret = "false"
    /\ hist["set_uart_auto_start"].caught = 1
    /\ stack = <<>>

\* C26: detect_identity returns a complete identity record or None for every
\* transport behaviour, no transport exception reaching its caller, and the
\* last frame it writes before it returns is the window-0 select.
C26_DetectIdentityRestores ==
    Returned("detect_identity")
        => LET h == hist["detect_identity"]
           IN  /\ h.ret \in {"identity", "None"}
               /\ h.ret = "identity"
                    => Len(retval.product_words) = 4 /\ Len(retval.serial_words) = 4
               /\ h.last >= h.first => trace[h.last].wrote = <<254, 0, 13>>

\* the part of C26 about exceptions alone: nothing but a record or None is
\* returned
C26_NeverRaises ==
    Returned("detect_identity") => hist["detect_identity"].ret \in {"identity", "None"}

\* the part of C26 about the window alone: a call that wrote frames ended
\* with the window-0 select
C26_RestoresWindow ==
    (Returned("detect_identity")
     /\ hist["detect_identity"].last >= hist["detect_identity"].first)
        => trace[hist["detect_identity"].last].wrote = <<254, 0, 13>>

----------------------------------------------------------------------------
(* Claims about the byte stream and about termination *)

\* frame i is a read whose 4-byte response was returned to the engine
Decoded(i) == trace[i].cmd[1] = 4 /\ trace[i].status = "none" /\ Len(trace[i].resp) = 4

\* C27: every 4-byte response the engine decodes is made of the bytes the
\* sensor sent in reply to the read frame written right before the read; in
\* particular the poll that follows a timed-out poll of _wait_until_ready
\* decodes no byte of the reply that came too late.
C27_PositionalCorrelation ==
    \A i \in Frames :
        Decoded(i) => \A k \in 1..4 : trace[i].from[k] = i

\* the part of C27 about _wait_until_ready alone
C27_WaitUntilReadyFresh ==
    \A i \in Frames :
        (/\ Decoded(i) /\ trace[i].by = "wait_until_ready"
         /\ i > 2 /\ trace[i - 2].by = "wait_until_ready"
         /\ trace[i - 2].status = "TimeoutError")
            => \A k \in 1..4 : trace[i].from[k] # i - 2

\* how far a call of fn is from its return: the number of program points
\* still ahead of pc, the polling loops counted once
Ahead(fn, pc, words) ==
    IF fn = "flash_backup"
        THEN CASE pc = "start" -> 3 [] pc = "poll" -> 2 [] OTHER -> 1
    ELSE IF fn = "flash_test"
        THEN CASE pc = "start" -> 4 [] pc = "poll" -> 3 [] pc = "diag" -> 2 [] OTHER -> 1
    ELSE IF fn = "exit_auto_mode"
        THEN CASE pc = "start" -> 5 [] pc = "read" -> 4 [] pc = "clear" -> 3
               [] pc = "after_backup" -> 2 [] OTHER -> 1
    ELSE IF fn = "full_reset"
        THEN CASE pc = "start" -> 6 [] pc = "after_exit" -> 5 [] pc = "reset" -> 4
               [] pc = "after_test" -> 3 [] OTHER -> 2
    ELSE IF fn = "configure"
        THEN CASE pc = "start" -> 3 [] pc = "after_set" -> 2 [] OTHER -> 1
    ELSE IF fn = "detect_identity"
        THEN CASE pc = "start" -> 2 * (8 - Len(words)) + 2
               [] pc = "word" -> 2 * (8 - Len(words)) + 1
               [] OTHER -> 1
    ELSE IF pc = "start" THEN 2 ELSE 1

\* the bound of the polling loop a frame is in, 0 when it is in none
LoopBound(f) ==
    IF f.fn \in {"flash_backup", "flash_test"} /\ f.pc = "poll" THEN FLASH_BACKUP_TIMEOUT
    ELSE IF f.fn = "wait_until_ready" THEN f.arg
    ELSE 0

\* the longest a pass of a polling loop lasts: a read of four bytes in which
\* every stream read times out or returns one byte only, and the sleep
PassTime == 4 * DEFAULT_TIMEOUT + BACKUP_POLL_INTERVAL

\* the time a frame's polling loop may still run at time t
LoopTime(f, t) ==
    IF LoopBound(f) = 0 THEN 0 ELSE LoopBound(f) + PassTime - (t - f.start)

\* what is left to do in a state: for each frame, outermost first, the
\* program points ahead and the time its polling loop may still run
Measure(stk, t) ==
    [k \in 1..(2 * Len(stk)) |->
        IF k % 2 = 1
            THEN Ahead(stk[(k + 1) \div 2].fn, stk[(k + 1) \div 2].pc,
                       stk[(k + 1) \div 2].words)
            ELSE LoopTime(stk[k \div 2], t)]

\* a comes before b in the lexicographic order, a proper prefix first
Before(a, b) ==
    \/ Len(a) < Len(b) /\ \A k \in 1..Len(a) : a[k] = b[k]
    \/ \E k \in 1..Min(Len(a), Len(b)) :
        /\ a[k] < b[k]
        /\ \A j \in 1..(k - 1) : a[j] = b[j]

\* C28: every operation of the engine terminates, whatever the sensor does:
\* every step of a run leaves less to do, in an order without infinite
\* descent: a program point is passed, a call returns, or the clock advances
\* inside a polling loop, which is left once its bound has elapsed.
C28_Termination ==
    [][/\ Before(Measure(stack', now'), Measure(stack, now))
       /\ \A k \in 1..(2 * Len(stack')) : Measure(stack', now')[k] >= 0
       /\ now' >= now]_vars

\* full_reset has returned after both polling loops of its run were left
\* because their bounds had elapsed
C28_Witness ==
    /\ stack = <<>>
    /\ Returned("full_reset")
    /\ hist["flash_test"].ret = "false"
    /\ hist["flash_test"].ended - hist["flash_test"].start >= FLASH_BACKUP_TIMEOUT
    /\ hist["wait_until_ready"].ret = "false"
    /\ hist["wait_until_ready"].ended - hist["wait_until_ready"].start
        >= SW_RESET_READY_TIMEOUT

----------------------------------------------------------------------------
(* Claims about results that do not depend on a later step *)

\* C29: once an MSC_CTRL poll begun within the bound showed bit 0x0400 clear
\* and the DIAG_STAT1 read that follows showed FLASH_ERR clear, flash_test
\* returns true, whether the _wait_until_ready(2.0) it then makes returns
\* true or runs into its timeout and returns false.
C29_FlashTestIgnoresWait ==
    hist["flash_test"].calls > 0
        => LET passed == \E j \in Range("flash_test") :
                            TestPollClear(j) /\ TestDiagClear(j)
           IN  /\ passed => hist["flash_test"].ret \in {"none", "true"}
               /\ (passed /\ Returned("flash_test"))
                    => /\ hist["flash_test"].ret = "true"
                       /\ hist["wait_until_ready"].calls > 0
               /\ (Returned("flash_test") /\ WaitInFlashTest)
                    => /\ passed
                       /\ hist["wait_until_ready"].arg = FLASH_TEST_READY_TIMEOUT
                       /\ hist["wait_until_ready"].ret \in {"true", "false"}
                       /\ hist["flash_test"].ret = "true"

\* flash_test has returned true although its readiness wait timed out
C29_Witness ==
    /\ Returned("flash_test") /\ hist["flash_test"].ret = "true"
    /\ WaitInFlashTest
    /\ hist["wait_until_ready"].ret = "false"
    /\ hist["wait_until_ready"].ended - hist["wait_until_ready"].start
        >= FLASH_TEST_READY_TIMEOUT

\* the UART_CTRL clear writes 0x88 <- 0x00 of the last exit_auto_mode call
ClearWrites ==
    {i \in Range("exit_auto_mode") :
        Wrote(i, <<136, 0, 13>>) /\ trace[i].by = "exit_auto_mode"}

====
